---- MODULE Spec2Model ----
(***************************************************************************)
(* A model of docln_fetch: the tree-mode crawl orchestrator, the shared    *)
(* task budget, the per-chapter image flow, the content-addressed image    *)
(* store, sequential (paginated) chapter assembly and the chapter fetch.   *)
(* Each subsystem has its own specification over its own variables; the    *)
(* other variables stay at their initial values.                           *)
(***************************************************************************)
EXTENDS Integers, Sequences, FiniteSets, TLC

\* ------------------------------------------------------------------------
\* Bounds of the model
\* ------------------------------------------------------------------------
MaxVols == 2
MaxChaps == 2
MaxBudget == 2
MaxUnits == 4
MaxTasks == 4
MaxSetCalls == 2
MaxImgs == 2
MaxUrlLen == 2
MaxBytes == 2
MaxWriters == 2
MaxCalls == 3
MaxSeed == 3
MaxTitles == 2
MaxFetches == 2
MaxBodies == 2
MaxClones == 2
MaxRate == 2
MaxSecs == 2
MaxConc == 2
MaxTime == 3
MaxReq == 3
MaxItems == 2
MaxBooks == 4
MaxMatches == 2
MaxTexts == 2
MaxCands == 2
MaxSites == 2
MaxJobs == 3
MaxDepth == 2
MaxCrawls == 3

\* CrawlerTaskManager::get_instance: CrawlerTaskManager::new(5)
DefaultMaxConcurrent == 5

VARIABLES
    book,        \* the parsed book: kind (Volumes | Chapters) and its shape
    budget,      \* permits of the shared task budget
    permits,     \* permits currently available
    ust,         \* state of every unit (volume task / chapter task)
    finished,    \* per TaskManager: its tasks in completion order
    cpc,         \* position of crawl()
    volRes,      \* sort_volumes: `results` of volume_tasks.wait()
    vpos,        \* sort_volumes: position of the for loop in `results`
    outVolumes,  \* sort_volumes: `volumes` pushed so far
    children,    \* epub.children after set_epub_children
    crawlErr,    \* the error crawl() returned
    generated,   \* epub.generate() has run
    \* CrawlerTaskManager (crawler/task.rs)
    maxConcurrent, \* max_concurrent_tasks
    curSem,        \* the semaphore the manager holds now (its generation)
    semAvail,      \* available permits of every semaphore created so far
    tst,           \* state of every task spawned through the manager
    tsem,          \* the semaphore a task's wrapper captured at spawn
    chapterSet,    \* JoinSet chapter_tasks
    imageSet,      \* JoinSet image_tasks
    nSpawned,      \* tasks spawned so far
    \* one run of chapter_task (crawler.rs)
    hpc,         \* position of chapter_task
    body0,       \* the chapter body as extracted: the src of each <img>
    content,     \* `content`: the body being rewritten
    srcs,        \* `srcs` = parser.chapter_srcs(&content)
    si,          \* position of `for src in srcs`
    images,      \* chapter.images
    att,         \* what happened to each src: [src, res, name]
    written,     \* the body handed to write_chapter
    imgFiles,    \* image files written by write_image
    \* Processor::write_image called by concurrent tasks
    wpc,         \* position of each writer's call
    warg,        \* its arguments <<bytes, extension>>
    wret,        \* the filename it returned (NoName: none, or an error)
    wafter,      \* the call began after an equal call had returned a name
    wrote,       \* the call wrote the file
    disk,        \* the image directory: name -> [exists, data]
    returned,    \* arguments for which some call has returned a name
    nCalls,      \* calls begun so far
    \* Downloader::chapters_sequential
    qpc,            \* position of the call
    chapters,       \* `chapters`: the seed chapters' titles
    title_pattern,  \* the site's title_pattern
    qi,             \* position of `for chapter in chapters`
    chapter_content,\* the body being assembled: the pages appended to it
    results,        \* `results`
    matched,        \* per fetched page: did matches_title hold
    \* Downloader::chapter
    fpc,         \* position of the call
    fresp,       \* the response received: [status, retry, body]
    fres,        \* what the call returned: [ok, msg, status, retry, body]
    flog,        \* what the call logged with error!
    nReq,        \* requests sent so far
    fsent,       \* requests sent by the current call
    \* Downloader::novel_info, Downloader::image and the page fetch of
    \* Downloader::chapters_sequential
    gpc,         \* position of the fetch
    gkind,       \* which fetch it is
    gresp,       \* the response received
    gres,        \* what the fetch hands on: [ok, msg, status, retry, body]
    \* the client of Downloader::new: buffer, rate limit, concurrency limit
    rateNum,   \* config.rate_limit.num
    rateSecs,  \* config.rate_limit.secs
    concLimit, \* config.concurrency_limit
    lnow,      \* the clock
    cst,       \* each Downloader clone: "none", "idle", "queued", "inflight"
    climiter,  \* the limiter stack each clone's client leads to
    lqueue,    \* per limiter stack: the requests waiting in its buffer
    lstate,    \* per limiter stack: the rate limit's [limited, until, rem]
    lperm,     \* per limiter stack: free permits of the concurrency limit
    lstarts,   \* how many requests were started at each instant
    lwins,     \* the instants at which a rate window began
    nStarted,  \* requests made so far
    \* crawl(): the site config and the Book aggregate's children
    cfg,       \* the site config: [volumes, chapters, next_url] are configured
    apc,       \* position of crawl()
    rule,      \* what get_chapter_config returned
    echildren, \* epub.children: [vol, chap, n]
    taken,     \* the children taken out of the aggregate for the tasks
    \* main: the run loop
    mpc,   \* position of main
    mres,  \* how the crawl of the current book ended: "none", "ok", "err"
    mlog,  \* what each turn of the loop printed
    mexit, \* what main returned: "none", "ok", "err"
    \* the fold of per-match Values in List, Current, Next and Combine
    xpc,      \* position of the extractor
    xkind,    \* which extractor and operation folds
    xin,      \* the Value got for each match, in document order
    xi,       \* position of the loop over the matches
    xresults, \* `results`
    xout,     \* the Value returned
    \* Next::extract
    npc,    \* position of the extractor
    ncond,  \* `condition` (the empty string: no condition)
    ncands, \* the elements `current` selects, in document order
    ni,     \* position of the loop over them
    nused,  \* the candidate whose sibling was extracted from (0: none)
    nout,   \* the Value returned
    \* volume_sequential / Downloader::chapters_sequential
    upc,     \* position of the sequential crawl
    uvols,   \* the seed chapters of each volume (their number)
    useed,   \* URL of the first seed chapter of the first volume
    ui,      \* volume being processed
    uj,      \* position of the loop over the volume's seed chapters
    unext,   \* `next_url`, shared by the calls for all volumes
    uflight, \* chapter-page requests in flight
    ulog,    \* URLs of the chapter-page requests sent, in order
    uext,    \* what extract_next_url gave on each page parsed, in order
    \* Text::extract / Text::extract_all
    tpc,      \* position of the extractor
    top,      \* the operation called
    tsel,     \* is `selector` set
    telems,   \* text nodes of the elements to read, in document order
    ti,       \* position of the loop of extract_all
    tresults, \* `results`
    tout,     \* the Value returned
    \* Url::extract / Url::extract_all
    kpc,   \* position of the extractor
    kop,   \* the operation called
    kname, \* `inner.name`
    kin,   \* the Value the inner Attr extractor gives
    ki,    \* position of the loop over the texts
    kurls, \* `urls`
    kout,  \* the Value returned
    \* Parser::volumes / Parser::volume_chapters
    ppc,       \* position of the parser
    pdoc,      \* the document: its volume items and their chapter items
    pinfos,    \* `volume_infos`: the volume items kept by volume_info
    pv,        \* `index` of the loop of volumes (0-based)
    pci,        \* `chapter_index` of the loop of volume_chapters (0-based)
    pchapters, \* `chapters` of the volume being parsed
    pvolumes,  \* `volumes`
    \* Parser::novel_info
    ipc,      \* position of the parser
    ititle,   \* text of `span.series-name > a` (NoValue: no such element)
    iitems,   \* the `div.info-item` elements: name and value text
    isummary, \* is there a non-blank summary paragraph
    ibook,    \* the fields read so far
    ires,     \* what novel_info returns
    \* Config::get_jar
    jpc,    \* position of get_jar
    jauth,  \* `auth`: the auth record of each site
    jorder, \* the order in which SITE_CONFIG.keys() yields the sites
    jpos,   \* position of the loop over the sites
    jleft,  \* cookies of the current site still to add
    jar,    \* `jar`: the cookies stored, each with its URL
    \* CrawlerTaskManager::wait_all_tasks
    ypc,     \* position of wait_all_tasks
    ylock,   \* does wait_all_tasks hold the manager lock
    ywait,   \* the JoinSet wait_tasks is draining
    yst,     \* state of every task
    ykind,   \* chapter or image task
    yparent, \* the chapter task that spawned an image task (0: none)
    ybefore, \* was the task spawned before wait_all_tasks was called
    ysem,    \* available permits of the semaphore
    ychap,   \* the manager's chapter_tasks
    yimg,    \* the manager's image_tasks
    yn,      \* tasks spawned so far
    \* Compressor::compress_epub
    zpc,      \* position of compress_epub
    ztree,    \* the working tree: its directories and regular files
    zexists,  \* does the working tree still exist
    zstack,   \* `stack`: directories to scan, each with its path in the archive
    zcur,     \* the directory being scanned
    zentries, \* entries of that directory read_dir has still to yield
    zsubs,    \* `sub_dirs`
    zspawned, \* the read tasks spawned, in order
    zarchive, \* the entries written to the archive, in order
    zclosed,  \* has the archive been closed
    zrm,      \* outcome of remove_dir_all
    \* DoclnCrawler::chapters_sequential
    dpc,    \* position of the call
    di,     \* index of the (chapter, content) pair the loop is at
    dfiles, \* the body write_chapter wrote for each seed chapter, by index
    \* DoclnCrawler::crawl of one book id, called again and again
    bpc,   \* position of the crawl
    bmode, \* "sequential" (the site has a next_url rule) or "tree"
    bdir,  \* does the working directory <site>_<id> exist on disk
    bmade, \* did this crawl create the working directory
    bepub, \* the Epub value: "none", or the state of its epub_dir field
    bfail, \* where the crawl failed, "none" while it has not
    bn     \* number of crawls of this book id begun

treeVars == <<book, budget, permits, ust, finished, cpc, volRes, vpos,
              outVolumes, children, crawlErr, generated>>

managerVars == <<maxConcurrent, curSem, semAvail, tst, tsem, chapterSet,
                 imageSet, nSpawned>>

chapterVars == <<hpc, body0, content, srcs, si, images, att, written,
                 imgFiles>>

storeVars == <<wpc, warg, wret, wafter, wrote, disk, returned, nCalls>>

seqVars == <<qpc, chapters, title_pattern, qi, chapter_content, results,
             matched>>

fetchVars == <<fpc, fresp, fres, flog, nReq, fsent>>

plainVars == <<gpc, gkind, gresp, gres>>

limVars == <<rateNum, rateSecs, concLimit, lnow, cst, climiter, lqueue,
             lstate, lperm, lstarts, lwins, nStarted>>

aggVars == <<cfg, apc, rule, echildren, taken>>

mainVars == <<mpc, mres, mlog, mexit>>

foldVars == <<xpc, xkind, xin, xi, xresults, xout>>

nextVars == <<npc, ncond, ncands, ni, nused, nout>>

pageVars == <<upc, uvols, useed, ui, uj, unext, uflight, ulog, uext>>

textVars == <<tpc, top, tsel, telems, ti, tresults, tout>>

urlVars == <<kpc, kop, kname, kin, ki, kurls, kout>>

parseVars == <<ppc, pdoc, pinfos, pv, pci, pchapters, pvolumes>>

infoVars == <<ipc, ititle, iitems, isummary, ibook, ires>>

jarVars == <<jpc, jauth, jorder, jpos, jleft, jar>>

waitVars == <<ypc, ylock, ywait, yst, ykind, yparent, ybefore, ysem, ychap,
              yimg, yn>>

zipVars == <<zpc, ztree, zexists, zstack, zcur, zentries, zsubs, zspawned,
             zarchive, zclosed, zrm>>

pairVars == <<dpc, di, dfiles>>

crawlVars == <<bpc, bmode, bdir, bmade, bepub, bfail, bn>>

vars == <<treeVars, managerVars, chapterVars, storeVars, seqVars, fetchVars,
          plainVars, limVars, aggVars, mainVars, foldVars, nextVars, pageVars,
          textVars, urlVars, parseVars, infoVars, jarVars, waitVars, zipVars,
          pairVars, crawlVars>>

\* What the steps of one subsystem leave alone: the other subsystems.
treeOthers == <<managerVars, chapterVars, storeVars, seqVars, fetchVars,
                plainVars, limVars, aggVars, mainVars, foldVars, nextVars,
                pageVars, textVars, urlVars, parseVars, infoVars, jarVars,
                waitVars, zipVars, pairVars, crawlVars>>
managerOthers == <<treeVars, chapterVars, storeVars, seqVars, fetchVars,
                   plainVars, limVars, aggVars, mainVars, foldVars, nextVars,
                   pageVars, textVars, urlVars, parseVars, infoVars, jarVars,
                   waitVars, zipVars, pairVars, crawlVars>>
chapterOthers == <<treeVars, managerVars, storeVars, seqVars, fetchVars,
                   plainVars, limVars, aggVars, mainVars, foldVars, nextVars,
                   pageVars, textVars, urlVars, parseVars, infoVars, jarVars,
                   waitVars, zipVars, pairVars, crawlVars>>
storeOthers == <<treeVars, managerVars, chapterVars, seqVars, fetchVars,
                 plainVars, limVars, aggVars, mainVars, foldVars, nextVars,
                 pageVars, textVars, urlVars, parseVars, infoVars, jarVars,
                 waitVars, zipVars, pairVars, crawlVars>>
seqOthers == <<treeVars, managerVars, chapterVars, storeVars, fetchVars,
               plainVars, limVars, aggVars, mainVars, foldVars, nextVars,
               pageVars, textVars, urlVars, parseVars, infoVars, jarVars,
               waitVars, zipVars, pairVars, crawlVars>>
fetchOthers == <<treeVars, managerVars, chapterVars, storeVars, seqVars,
                 plainVars, limVars, aggVars, mainVars, foldVars, nextVars,
                 pageVars, textVars, urlVars, parseVars, infoVars, jarVars,
                 waitVars, zipVars, pairVars, crawlVars>>
plainOthers == <<treeVars, managerVars, chapterVars, storeVars, seqVars,
                 fetchVars, limVars, aggVars, mainVars, foldVars, nextVars,
                 pageVars, textVars, urlVars, parseVars, infoVars, jarVars,
                 waitVars, zipVars, pairVars, crawlVars>>
limOthers == <<treeVars, managerVars, chapterVars, storeVars, seqVars,
               fetchVars, plainVars, aggVars, mainVars, foldVars, nextVars,
               pageVars, textVars, urlVars, parseVars, infoVars, jarVars,
               waitVars, zipVars, pairVars, crawlVars>>
aggOthers == <<treeVars, managerVars, chapterVars, storeVars, seqVars,
               fetchVars, plainVars, limVars, mainVars, foldVars, nextVars,
               pageVars, textVars, urlVars, parseVars, infoVars, jarVars,
               waitVars, zipVars, pairVars, crawlVars>>
mainOthers == <<treeVars, managerVars, chapterVars, storeVars, seqVars,
                fetchVars, plainVars, limVars, aggVars, foldVars, nextVars,
                pageVars, textVars, urlVars, parseVars, infoVars, jarVars,
                waitVars, zipVars, pairVars, crawlVars>>
foldOthers == <<treeVars, managerVars, chapterVars, storeVars, seqVars,
                fetchVars, plainVars, limVars, aggVars, mainVars, nextVars,
                pageVars, textVars, urlVars, parseVars, infoVars, jarVars,
                waitVars, zipVars, pairVars, crawlVars>>
nextOthers == <<treeVars, managerVars, chapterVars, storeVars, seqVars,
                fetchVars, plainVars, limVars, aggVars, mainVars, foldVars,
                pageVars, textVars, urlVars, parseVars, infoVars, jarVars,
                waitVars, zipVars, pairVars, crawlVars>>
pageOthers == <<treeVars, managerVars, chapterVars, storeVars, seqVars,
                fetchVars, plainVars, limVars, aggVars, mainVars, foldVars,
                nextVars, textVars, urlVars, parseVars, infoVars, jarVars,
                waitVars, zipVars, pairVars, crawlVars>>
textOthers == <<treeVars, managerVars, chapterVars, storeVars, seqVars,
                fetchVars, plainVars, limVars, aggVars, mainVars, foldVars,
                nextVars, pageVars, urlVars, parseVars, infoVars, jarVars,
                waitVars, zipVars, pairVars, crawlVars>>
urlOthers == <<treeVars, managerVars, chapterVars, storeVars, seqVars,
               fetchVars, plainVars, limVars, aggVars, mainVars, foldVars,
               nextVars, pageVars, textVars, parseVars, infoVars, jarVars,
               waitVars, zipVars, pairVars, crawlVars>>
parseOthers == <<treeVars, managerVars, chapterVars, storeVars, seqVars,
                 fetchVars, plainVars, limVars, aggVars, mainVars, foldVars,
                 nextVars, pageVars, textVars, urlVars, infoVars, jarVars,
                 waitVars, zipVars, pairVars, crawlVars>>
infoOthers == <<treeVars, managerVars, chapterVars, storeVars, seqVars,
                fetchVars, plainVars, limVars, aggVars, mainVars, foldVars,
                nextVars, pageVars, textVars, urlVars, parseVars, jarVars,
                waitVars, zipVars, pairVars, crawlVars>>
jarOthers == <<treeVars, managerVars, chapterVars, storeVars, seqVars,
               fetchVars, plainVars, limVars, aggVars, mainVars, foldVars,
               nextVars, pageVars, textVars, urlVars, parseVars, infoVars,
               waitVars, zipVars, pairVars, crawlVars>>
waitOthers == <<treeVars, managerVars, chapterVars, storeVars, seqVars,
                fetchVars, plainVars, limVars, aggVars, mainVars, foldVars,
                nextVars, pageVars, textVars, urlVars, parseVars, infoVars,
                jarVars, zipVars, pairVars, crawlVars>>
zipOthers == <<treeVars, managerVars, chapterVars, storeVars, seqVars,
               fetchVars, plainVars, limVars, aggVars, mainVars, foldVars,
               nextVars, pageVars, textVars, urlVars, parseVars, infoVars,
               jarVars, waitVars, pairVars, crawlVars>>
pairOthers == <<treeVars, managerVars, chapterVars, storeVars, seqVars,
                fetchVars, plainVars, limVars, aggVars, mainVars, foldVars,
                nextVars, pageVars, textVars, urlVars, parseVars, infoVars,
                jarVars, waitVars, zipVars, crawlVars>>
crawlOthers == <<treeVars, managerVars, chapterVars, storeVars, seqVars,
                 fetchVars, plainVars, limVars, aggVars, mainVars, foldVars,
                 nextVars, pageVars, textVars, urlVars, parseVars, infoVars,
                 jarVars, waitVars, zipVars, pairVars>>

\* ------------------------------------------------------------------------
\* Tree mode: book -> volume -> chapter
\* ------------------------------------------------------------------------
NoUnit == <<0, 0>>

\* A unit is <<v, c>>: <<v, 0>> is the task of volume v, <<v, c>> the task of
\* chapter c of volume v, <<0, c>> the task of chapter c of a book without
\* volumes.
Units == ((0..MaxVols) \X (0..MaxChaps)) \ {NoUnit}

\* Volume shapes: for every volume the number of chapters the parser found.
VolShapes == UNION {[1..k -> 0..MaxChaps] : k \in 0..MaxVols}

RECURSIVE SumSeq(_)
SumSeq(s) == IF s = <<>> THEN 0 ELSE Head(s) + SumSeq(Tail(s))

\* enum VolOrChap: exactly one of the two variants.  A book has at most
\* MaxUnits tasks (volumes and chapters together).
Books ==
    {[kind |-> "Chapters", vols |-> <<>>, n |-> k] : k \in 0..MaxChaps}
    \cup {[kind |-> "Volumes", vols |-> s, n |-> 0] :
             s \in {t \in VolShapes : Len(t) + SumSeq(t) <= MaxUnits}}

\* The 1-based index the parser gives a unit: its place in the document.
Index(u) == IF u[2] = 0 THEN u[1] ELSE u[2]

IsVolume(u) == u[2] = 0

\* The tasks spawned on the top-level manager (volume_tasks / chapter_tasks
\* called by epub_task).
TopUnits ==
    IF book.kind = "Volumes"
    THEN {<<v, 0>> : v \in 1..Len(book.vols)}
    ELSE {<<0, c>> : c \in 1..book.n}

\* The tasks volume_task spawns on the volume's own ChapterTaskManager.
ChapterUnits(v) == {<<v, c>> : c \in 1..book.vols[v]}

\* Manager 0 is the one epub_task returns; manager v the one volume v returns.
ManagerTasks(m) == IF m = 0 THEN TopUnits ELSE ChapterUnits(m)

ManagerOf(u) == IF u[2] = 0 THEN 0 ELSE u[1]

Finished(u) == ust[u] \in {"ok", "err"}

HoldsSlot(u) == ust[u] \in {"running", "spawned"}

\* The child handles a unit awaits before it returns.  volume_task returns
\* (volume, chapter_tasks) right after spawning: it awaits none.
AwaitsOwnChildren(u) == IF IsVolume(u) THEN ChapterUnits(u[1]) ELSE {}

AwaitedBy(u) == {}

\* Vec::sort_by_key(|x| x.index): a stable insertion sort.
RECURSIVE InsertByIndex(_, _)
InsertByIndex(x, s) ==
    IF s = <<>> THEN <<x>>
    ELSE IF Head(s).index <= x.index
         THEN <<Head(s)>> \o InsertByIndex(x, Tail(s))
         ELSE <<x>> \o s

RECURSIVE SortLoop(_, _)
SortLoop(s, acc) ==
    IF s = <<>> THEN acc ELSE SortLoop(Tail(s), InsertByIndex(Head(s), acc))

Unsorted(s) == s

sort_by_key(s) == SortLoop(s, <<>>)

\* TaskManager::wait: the outputs in completion order, or the first failure.
WaitStatus(m) ==
    IF \E i \in 1..Len(finished[m]) : ust[finished[m][i]] = "err" THEN "err"
    ELSE IF \A u \in ManagerTasks(m) : ust[u] = "ok" THEN "ok"
    ELSE "pending"

FirstErr(m) ==
    LET i == CHOOSE k \in 1..Len(finished[m]) :
                 /\ ust[finished[m][k]] = "err"
                 /\ \A j \in 1..(k - 1) : ust[finished[m][j]] # "err"
    IN finished[m][i]

ChapterOut(u) == [index |-> Index(u), chapters |-> <<>>]

\* sort_chapters: wait, then sort by index.
sort_chapters(m) ==
    sort_by_key([i \in 1..Len(finished[m]) |-> ChapterOut(finished[m][i])])

\* crawl(): `set_epub_children(...).await?` then generate.
IgnoreError(r) == "generate"

AfterCollect(r) == IF r = "err" THEN "failed" ELSE "generate"

TreeInit ==
    /\ book \in Books
    /\ budget \in 1..MaxBudget
    /\ permits = budget
    /\ ust = [u \in Units |-> "none"]
    /\ finished = [m \in 0..MaxVols |-> <<>>]
    /\ cpc = "start"
    /\ volRes = <<>>
    /\ vpos = 0
    /\ outVolumes = <<>>
    /\ children = <<>>
    /\ crawlErr = NoUnit
    /\ generated = FALSE

\* epub_task: create the tree, fetch and parse the book document, fetch the
\* cover, spawn the top-level tasks and return them un-awaited.
EpubTaskOk ==
    /\ cpc = "start"
    /\ ust' = [u \in Units |-> IF u \in TopUnits THEN "waiting" ELSE ust[u]]
    /\ cpc' = "wait_top"
    /\ UNCHANGED <<treeOthers,
                   book, budget, permits, finished, volRes, vpos, outVolumes,
                   children, crawlErr, generated>>

EpubTaskErr ==
    /\ cpc = "start"
    /\ cpc' = "failed"
    /\ crawlErr' = <<-1, -1>>
    /\ UNCHANGED <<treeOthers,
                   book, budget, permits, ust, finished, volRes, vpos,
                   outVolumes, children, generated>>

\* A spawned unit takes a slot of the shared budget before its body runs.
Acquire(u) ==
    /\ ust[u] = "waiting"
    /\ permits > 0
    /\ permits' = permits - 1
    /\ ust' = [ust EXCEPT ![u] = "running"]
    /\ UNCHANGED <<treeOthers,
                   book, budget, finished, cpc, volRes, vpos, outVolumes,
                   children, crawlErr, generated>>

\* chapter_task: fetch, extract, images, write; Ok(chapter) or Err.
ChapterFinish(u, res) ==
    /\ ~IsVolume(u)
    /\ ust[u] = "running"
    /\ ust' = [ust EXCEPT ![u] = res]
    /\ permits' = permits + 1
    /\ finished' = [finished EXCEPT ![ManagerOf(u)] = Append(@, u)]
    /\ UNCHANGED <<treeOthers,
                   book, budget, cpc, volRes, vpos, outVolumes, children,
                   crawlErr, generated>>

\* volume_task up to `?`: the cover download or the divider page fails.
VolumeFail(u) ==
    /\ IsVolume(u)
    /\ ust[u] = "running"
    /\ ust' = [ust EXCEPT ![u] = "err"]
    /\ permits' = permits + 1
    /\ finished' = [finished EXCEPT ![0] = Append(@, u)]
    /\ UNCHANGED <<treeOthers,
                   book, budget, cpc, volRes, vpos, outVolumes, children,
                   crawlErr, generated>>

\* volume_task: chapter_tasks(take(&mut volume.chapters), ..) spawns the
\* chapter tasks of the volume.
VolumeSpawn(u) ==
    /\ IsVolume(u)
    /\ ust[u] = "running"
    /\ ust' = [x \in Units |->
                 IF x = u THEN "spawned"
                 ELSE IF x \in ChapterUnits(u[1]) THEN "waiting"
                 ELSE ust[x]]
    /\ UNCHANGED <<treeOthers,
                   book, budget, permits, finished, cpc, volRes, vpos,
                   outVolumes, children, crawlErr, generated>>

\* volume_task: Ok((volume, chapter_tasks)); the slot is released.
VolumeReturn(u) ==
    /\ IsVolume(u)
    /\ ust[u] = "spawned"
    /\ \A c \in AwaitedBy(u) : Finished(c)
    /\ ust' = [ust EXCEPT ![u] = "ok"]
    /\ permits' = permits + 1
    /\ finished' = [finished EXCEPT ![0] = Append(@, u)]
    /\ UNCHANGED <<treeOthers,
                   book, budget, cpc, volRes, vpos, outVolumes, children,
                   crawlErr, generated>>

\* set_epub_children, Chapter arm: sort_chapters(chapter_tasks).
CollectTopChapters ==
    /\ cpc = "wait_top"
    /\ book.kind = "Chapters"
    /\ WaitStatus(0) # "pending"
    /\ cpc' = AfterCollect(WaitStatus(0))
    /\ IF WaitStatus(0) = "err"
       THEN /\ crawlErr' = FirstErr(0)
            /\ UNCHANGED children
       ELSE /\ children' = sort_chapters(0)
            /\ UNCHANGED crawlErr
    /\ UNCHANGED <<treeOthers,
                   book, budget, permits, ust, finished, volRes, vpos,
                   outVolumes, generated>>

\* sort_volumes: `let results = volume_tasks.wait().await?`.
CollectVolumes ==
    /\ cpc = "wait_top"
    /\ book.kind = "Volumes"
    /\ WaitStatus(0) # "pending"
    /\ IF WaitStatus(0) = "err"
       THEN /\ cpc' = AfterCollect("err")
            /\ crawlErr' = FirstErr(0)
            /\ UNCHANGED <<volRes, vpos, children>>
       ELSE /\ volRes' = finished[0]
            /\ vpos' = 1
            /\ UNCHANGED crawlErr
            /\ IF finished[0] = <<>>
               THEN /\ cpc' = AfterCollect("ok")
                    /\ children' = <<>>
               ELSE /\ cpc' = "wait_chapters"
                    /\ UNCHANGED children
    /\ UNCHANGED <<treeOthers,
                   book, budget, permits, ust, finished, outVolumes,
                   generated>>

\* sort_volumes, one turn of `for (mut volume, chapter_tasks) in results`:
\* sort_chapters(chapter_tasks).await?, push; after the last one sort the
\* volumes by index.
CollectVolumeChapters ==
    /\ cpc = "wait_chapters"
    /\ vpos <= Len(volRes)
    /\ LET v == volRes[vpos][1]
           st == WaitStatus(v)
           vol == [index |-> Index(volRes[vpos]), chapters |-> sort_chapters(v)]
       IN /\ st # "pending"
          /\ IF st = "err"
             THEN /\ cpc' = AfterCollect("err")
                  /\ crawlErr' = FirstErr(v)
                  /\ UNCHANGED <<vpos, outVolumes, children>>
             ELSE /\ outVolumes' = Append(outVolumes, vol)
                  /\ vpos' = vpos + 1
                  /\ UNCHANGED crawlErr
                  /\ IF vpos = Len(volRes)
                     THEN /\ children' = sort_by_key(Append(outVolumes, vol))
                          /\ cpc' = AfterCollect("ok")
                     ELSE UNCHANGED <<children, cpc>>
    /\ UNCHANGED <<treeOthers,
                   book, budget, permits, ust, finished, volRes, generated>>

\* crawl(): epub.generate().
Generate ==
    /\ cpc = "generate"
    /\ generated' = TRUE
    /\ cpc' = "done"
    /\ UNCHANGED <<treeOthers,
                   book, budget, permits, ust, finished, volRes, vpos,
                   outVolumes, children, crawlErr>>

TreeNext ==
    \/ EpubTaskOk
    \/ EpubTaskErr
    \/ \E u \in Units : Acquire(u)
    \/ \E u \in Units, res \in {"ok", "err"} : ChapterFinish(u, res)
    \/ \E u \in Units : VolumeFail(u)
    \/ \E u \in Units : VolumeSpawn(u)
    \/ \E u \in Units : VolumeReturn(u)
    \/ CollectTopChapters
    \/ CollectVolumes
    \/ CollectVolumeChapters
    \/ Generate

\* ------------------------------------------------------------------------
\* CrawlerTaskManager: the process-wide manager of crawler/task.rs
\* ------------------------------------------------------------------------
Tasks == 1..MaxTasks

\* CrawlerTaskManager::new(5) behind the OnceLock.
ManagerInit ==
    /\ maxConcurrent = DefaultMaxConcurrent
    /\ curSem = 0
    /\ semAvail = [g \in 0..MaxSetCalls |->
                     IF g = 0 THEN DefaultMaxConcurrent ELSE 0]
    /\ tst = [t \in Tasks |-> "none"]
    /\ tsem = [t \in Tasks |-> 0]
    /\ chapterSet = {}
    /\ imageSet = {}
    /\ nSpawned = 0

Running(set) == {t \in set : tst[t] = "running"}

\* spawn_task_internal: under the lock, clone the manager's semaphore into
\* the wrapper future and spawn the wrapper on the selected JoinSet.
spawn_task_internal(t) ==
    /\ tst[t] = "none"
    /\ tst' = [tst EXCEPT ![t] = "waiting"]
    /\ tsem' = [tsem EXCEPT ![t] = curSem]
    /\ nSpawned' = nSpawned + 1

\* spawn_chapter
SpawnChapter ==
    /\ nSpawned < MaxTasks
    /\ spawn_task_internal(nSpawned + 1)
    /\ chapterSet' = chapterSet \cup {nSpawned + 1}
    /\ UNCHANGED <<managerOthers, maxConcurrent, curSem, semAvail, imageSet>>

\* spawn_image, called by download_illustration inside a chapter task body.
SpawnImage ==
    /\ nSpawned < MaxTasks
    /\ Running(chapterSet) # {}
    /\ spawn_task_internal(nSpawned + 1)
    /\ imageSet' = imageSet \cup {nSpawned + 1}
    /\ UNCHANGED <<managerOthers, maxConcurrent, curSem, semAvail, chapterSet>>

\* The wrapper: `let _permit = semaphore.acquire().await;`
TaskAcquire(t) ==
    /\ tst[t] = "waiting"
    /\ semAvail[tsem[t]] > 0
    /\ semAvail' = [semAvail EXCEPT ![tsem[t]] = @ - 1]
    /\ tst' = [tst EXCEPT ![t] = "running"]
    /\ UNCHANGED <<managerOthers, maxConcurrent, curSem, tsem, chapterSet,
                   imageSet,
                   nSpawned>>

\* The wrapper: `future.await;` ends and _permit is dropped.
TaskFinish(t) ==
    /\ tst[t] = "running"
    /\ semAvail' = [semAvail EXCEPT ![tsem[t]] = @ + 1]
    /\ tst' = [tst EXCEPT ![t] = "done"]
    /\ UNCHANGED <<managerOthers, maxConcurrent, curSem, tsem, chapterSet,
                   imageSet,
                   nSpawned>>

\* set_max_concurrent_tasks: a new semaphore replaces the old one.
set_max_concurrent_tasks(n) ==
    /\ curSem < MaxSetCalls
    /\ maxConcurrent' = n
    /\ curSem' = curSem + 1
    /\ semAvail' = [semAvail EXCEPT ![curSem + 1] = n]
    /\ UNCHANGED <<managerOthers, tst, tsem, chapterSet, imageSet, nSpawned>>

ManagerNext ==
    \/ SpawnChapter
    \/ SpawnImage
    \/ \E t \in Tasks : TaskAcquire(t)
    \/ \E t \in Tasks : TaskFinish(t)
    \/ \E n \in 1..MaxBudget : set_max_concurrent_tasks(n)

\* ------------------------------------------------------------------------
\* chapter_task: the per-chapter image flow
\* ------------------------------------------------------------------------
\* Strings are sequences of characters.  UrlChars are the characters of the
\* image URLs; 0 stands for the prefix "../Images/" and 10 + b for the file
\* name write_image returns for the bytes b.
UrlChars == {1, 2}

Bytes == 1..MaxBytes

Strings(n) == UNION {[1..k -> UrlChars] : k \in 0..n}

\* An <img> of the body: its src attribute ("" when it has none).
ImgSrcs == Strings(MaxUrlLen)

Bodies == UNION {[1..k -> ImgSrcs] : k \in 0..MaxImgs}

IsPrefix(p, s) == Len(p) <= Len(s) /\ SubSeq(s, 1, Len(p)) = p

\* str::replace(from, to): every non-overlapping match of `from`, left to
\* right, is replaced by `to`; `from` is a substring pattern.
RECURSIVE Replace(_, _, _)
Replace(s, from, to) ==
    IF Len(s) < Len(from) THEN s
    ELSE IF IsPrefix(from, s)
         THEN to \o Replace(SubSeq(s, Len(from) + 1, Len(s)), from, to)
         ELSE <<Head(s)>> \o Replace(Tail(s), from, to)

\* content.replace(&src, ..) on the body: on the text of every <img>.
ReplaceAll(c, from, to) == [p \in 1..Len(c) |-> Replace(c[p], from, to)]

\* Parser::chapter_srcs: the non-empty src of every <img>, in order.
NonEmpty(x) == x # <<>>

chapter_srcs(c) == SelectSeq(c, NonEmpty)

\* The name write_image gives the bytes b (content hash + extension).
ImageName(b) == 10 + b

\* format!("../Images/{}", image_name)
LocalRef(name) == <<0, name>>

ChapterIdle ==
    /\ hpc = "idle"
    /\ body0 = <<>>
    /\ content = <<>>
    /\ srcs = <<>>
    /\ si = 0
    /\ images = <<>>
    /\ att = <<>>
    /\ written = <<>>
    /\ imgFiles = {}

ChapterInit ==
    /\ hpc = "fetch"
    /\ body0 \in Bodies
    /\ content = <<>>
    /\ srcs = <<>>
    /\ si = 0
    /\ images = <<>>
    /\ att = <<>>
    /\ written = <<>>
    /\ imgFiles = {}

\* downloader.chapter(..)? or parser.chapter_content(..)? fails.
ChapterFetchFail ==
    /\ hpc = "fetch"
    /\ hpc' = "err"
    /\ UNCHANGED <<chapterOthers, body0, content, srcs, si, images, att,
                   written, imgFiles>>

\* The body is fetched and extracted; srcs = parser.chapter_srcs(&content).
ChapterFetchOk ==
    /\ hpc = "fetch"
    /\ content' = body0
    /\ srcs' = chapter_srcs(body0)
    /\ si' = 1
    /\ hpc' = "images"
    /\ UNCHANGED <<chapterOthers, body0, images, att, written, imgFiles>>

\* `let Ok(..) = downloader.image(&src).await else { continue }`
ImageDownloadFail ==
    /\ hpc = "images"
    /\ si <= Len(srcs)
    /\ att' = Append(att, [src |-> srcs[si], res |-> "download", name |-> 0])
    /\ si' = si + 1
    /\ UNCHANGED <<chapterOthers, hpc, body0, content, srcs, images, written,
                   imgFiles>>

\* `let Ok(..) = processor.write_image(..).await else { continue }`
ImageWriteFail ==
    /\ hpc = "images"
    /\ si <= Len(srcs)
    /\ att' = Append(att, [src |-> srcs[si], res |-> "write", name |-> 0])
    /\ si' = si + 1
    /\ UNCHANGED <<chapterOthers, hpc, body0, content, srcs, images, written,
                   imgFiles>>

\* The image is saved: replace the src in the body, push the name.
ImageOk(b) ==
    /\ hpc = "images"
    /\ si <= Len(srcs)
    /\ content' = ReplaceAll(content, srcs[si], LocalRef(ImageName(b)))
    /\ images' = Append(images, ImageName(b))
    /\ imgFiles' = imgFiles \cup {ImageName(b)}
    /\ att' = Append(att, [src |-> srcs[si], res |-> "ok",
                           name |-> ImageName(b)])
    /\ si' = si + 1
    /\ UNCHANGED <<chapterOthers, hpc, body0, srcs, written>>

\* processor.write_chapter(content, &chapter).await?
WriteChapterOk ==
    /\ hpc = "images"
    /\ si > Len(srcs)
    /\ written' = content
    /\ hpc' = "ok"
    /\ UNCHANGED <<chapterOthers, body0, content, srcs, si, images, att,
                   imgFiles>>

WriteChapterFail ==
    /\ hpc = "images"
    /\ si > Len(srcs)
    /\ hpc' = "err"
    /\ UNCHANGED <<chapterOthers, body0, content, srcs, si, images, att,
                   written, imgFiles>>

ChapterNext ==
    \/ ChapterFetchFail
    \/ ChapterFetchOk
    \/ ImageDownloadFail
    \/ ImageWriteFail
    \/ \E b \in Bytes : ImageOk(b)
    \/ WriteChapterOk
    \/ WriteChapterFail

\* ------------------------------------------------------------------------
\* Processor::write_image: the content-addressed image store
\* ------------------------------------------------------------------------
Writers == 1..MaxWriters

\* Downloader::image takes the extension from the URL's path.
Exts == {"jpg", "png"}

Args == Bytes \X Exts

NoArg == <<0, "">>

NoName == <<0, "">>

\* The content hash of the bytes: distinct bytes have distinct hashes.
Hash(b) == 100 + b

\* A filename that ignores the bytes.
NameByExt(b, e) == <<100, e>>

\* filename = hex content hash + extension
FileName(b, e) == <<Hash(b), e>>

NameOf(a) == FileName(a[1], a[2])

Names == {NameOf(a) : a \in Args}

NoFile == [exists |-> FALSE, data |-> 0]

\* An exists-check that never finds the file.
NeverExists(n) == FALSE

\* "if that exact file already exists"
Exists(n) == disk[n].exists

StoreInit ==
    /\ wpc = [w \in Writers |-> "idle"]
    /\ warg = [w \in Writers |-> NoArg]
    /\ wret = [w \in Writers |-> NoName]
    /\ wafter = [w \in Writers |-> FALSE]
    /\ wrote = [w \in Writers |-> FALSE]
    /\ disk = [n \in Names |-> NoFile]
    /\ returned = {}
    /\ nCalls = 0

\* A task calls write_image(b, e).
WriteImageBegin(w, b, e) ==
    /\ wpc[w] \in {"idle", "done"}
    /\ nCalls < MaxCalls
    /\ nCalls' = nCalls + 1
    /\ wpc' = [wpc EXCEPT ![w] = "check"]
    /\ warg' = [warg EXCEPT ![w] = <<b, e>>]
    /\ wret' = [wret EXCEPT ![w] = NoName]
    /\ wafter' = [wafter EXCEPT ![w] = <<b, e>> \in returned]
    /\ wrote' = [wrote EXCEPT ![w] = FALSE]
    /\ UNCHANGED <<storeOthers, disk, returned>>

\* The file exists: skip the write and return the existing name.
ExistsHit(w) ==
    /\ wpc[w] = "check"
    /\ Exists(NameOf(warg[w]))
    /\ wret' = [wret EXCEPT ![w] = NameOf(warg[w])]
    /\ wpc' = [wpc EXCEPT ![w] = "done"]
    /\ returned' = returned \cup {warg[w]}
    /\ UNCHANGED <<storeOthers, warg, wafter, wrote, disk, nCalls>>

\* The file does not exist: go on to write it.
ExistsMiss(w) ==
    /\ wpc[w] = "check"
    /\ ~Exists(NameOf(warg[w]))
    /\ wpc' = [wpc EXCEPT ![w] = "create"]
    /\ UNCHANGED <<storeOthers, warg, wret, wafter, wrote, disk, returned,
                   nCalls>>

\* The write begins: the file is created (or truncated).
CreateFile(w) ==
    /\ wpc[w] = "create"
    /\ disk' = [disk EXCEPT ![NameOf(warg[w])] = [exists |-> TRUE, data |-> 0]]
    /\ wpc' = [wpc EXCEPT ![w] = "fill"]
    /\ UNCHANGED <<storeOthers, warg, wret, wafter, wrote, returned, nCalls>>

\* The file cannot be created: write_image returns an error.
WriteImageErr(w) ==
    /\ wpc[w] = "create"
    /\ wpc' = [wpc EXCEPT ![w] = "done"]
    /\ UNCHANGED <<storeOthers, warg, wret, wafter, wrote, disk, returned,
                   nCalls>>

\* The bytes are written and the name is returned.
FillFile(w) ==
    /\ wpc[w] = "fill"
    /\ disk' = [disk EXCEPT ![NameOf(warg[w])] =
                     [exists |-> TRUE, data |-> warg[w][1]]]
    /\ wrote' = [wrote EXCEPT ![w] = TRUE]
    /\ wret' = [wret EXCEPT ![w] = NameOf(warg[w])]
    /\ wpc' = [wpc EXCEPT ![w] = "done"]
    /\ returned' = returned \cup {warg[w]}
    /\ UNCHANGED <<storeOthers, warg, wafter, nCalls>>

StoreNext ==
    \/ \E w \in Writers, b \in Bytes, e \in Exts : WriteImageBegin(w, b, e)
    \/ \E w \in Writers : ExistsHit(w)
    \/ \E w \in Writers : ExistsMiss(w)
    \/ \E w \in Writers : CreateFile(w)
    \/ \E w \in Writers : WriteImageErr(w)
    \/ \E w \in Writers : FillFile(w)

\* ------------------------------------------------------------------------
\* Downloader::chapters_sequential
\* ------------------------------------------------------------------------
\* A title is a base text, optionally followed by a part marker such as
\* "(1/2)".  Base 0 with no part is the extractor yielding no single title.
Titles == 1..MaxTitles

PageTitles == [base : 0..MaxTitles, part : BOOLEAN]

\* The title the default title_pattern names (it has no {title} in it).
DefaultTitle == 1

\* title_pattern.replace("{title}", title), as the base the regular
\* expression accepts; its part marker is optional.
Pattern(title) ==
    IF title_pattern = "placeholder" THEN title ELSE DefaultTitle

\* ContentExtractor::matches_title
matches_title(title, target) == target.base = Pattern(title)

\* `match extract_title(content) { Single(text) => text.trim(), _ =>
\* chapter.title.clone() }`
PageTitle(t, chapter) ==
    IF t.base = 0 THEN [base |-> chapter, part |-> FALSE] ELSE t

SeqIdle ==
    /\ qpc = "idle"
    /\ chapters = <<>>
    /\ title_pattern = "default"
    /\ qi = 0
    /\ chapter_content = <<>>
    /\ results = <<>>
    /\ matched = <<>>

SeqInit ==
    /\ qpc = "join"
    /\ chapters \in UNION {[1..k -> Titles] : k \in 0..MaxSeed}
    /\ title_pattern \in {"default", "placeholder"}
    /\ qi = 1
    /\ chapter_content = <<>>
    /\ results = <<>>
    /\ matched = <<>>

\* `*next_url = self.url.join(next_url)?.to_string()`
SeqJoin(ok) ==
    /\ qpc = "join"
    /\ qpc' = IF ok THEN "loop" ELSE "err"
    /\ UNCHANGED <<seqOthers, chapters, title_pattern, qi, chapter_content,
                   results, matched>>

\* The request, the body, the content element or the paragraphs fail.
SeqPageFail ==
    /\ qpc = "loop"
    /\ qi <= Len(chapters)
    /\ qpc' = "err"
    /\ UNCHANGED <<seqOthers, chapters, title_pattern, qi, chapter_content,
                   results, matched>>

\* One page is fetched: its text is page number qi, its title t; nxt tells
\* whether a next URL is extracted ("url"), none ("none"), or one that
\* cannot be joined ("bad").
SeqPage(t, nxt) ==
    /\ qpc = "loop"
    /\ qi <= Len(chapters)
    /\ LET m == matches_title(chapters[qi], PageTitle(t, chapters[qi]))
       IN /\ matched' = Append(matched, m)
          /\ IF m
             THEN /\ chapter_content' = chapter_content \o <<qi>>
                  /\ results' = results
             ELSE /\ results' = Append(results, chapter_content)
                  /\ chapter_content' = <<qi>>
    /\ qi' = qi + 1
    /\ qpc' = CASE nxt = "url" -> "loop"
                [] nxt = "none" -> "ok"
                [] nxt = "bad" -> "err"
    /\ UNCHANGED <<seqOthers, chapters, title_pattern>>

\* The loop is over: `Ok(results)`.
SeqReturn ==
    /\ qpc = "loop"
    /\ qi > Len(chapters)
    /\ qpc' = "ok"
    /\ UNCHANGED <<seqOthers, chapters, title_pattern, qi, chapter_content,
                   results, matched>>

SeqNext ==
    \/ \E ok \in BOOLEAN : SeqJoin(ok)
    \/ SeqPageFail
    \/ \E t \in PageTitles, nxt \in {"url", "none", "bad"} : SeqPage(t, nxt)
    \/ SeqReturn

\* ------------------------------------------------------------------------
\* Downloader::chapter
\* ------------------------------------------------------------------------
Statuses == {200, 301, 404, 429, 500, 503}

\* The Retry-After header of a response: absent, bytes that are not text,
\* or a number of seconds.
RetryAfters == {"absent", "bytes", "30", "120"}

Responses == [status : Statuses, retry : RetryAfters, body : 1..MaxBodies]

NoResponse == [status |-> 0, retry |-> "absent", body |-> 0]

\* Ok(html_content)
OkResult(body) ==
    [ok |-> TRUE, msg |-> "", status |-> 0, retry |-> "", body |-> body]

\* An error whose message leaves out the status.
ErrNoStatus(msg, status, retry) ==
    [ok |-> FALSE, msg |-> msg, status |-> 0, retry |-> retry, body |-> 0]

\* Err(anyhow!(..)): the message and the values formatted into it.
ErrResult(msg, status, retry) ==
    [ok |-> FALSE, msg |-> msg, status |-> status, retry |-> retry,
     body |-> 0]

NoResult == ErrResult("", 0, "")

\* retry_after.to_str().unwrap_or("未知")
HeaderText(h) == IF h = "bytes" THEN "unknown" ELSE h

FetchIdle ==
    /\ fpc = "idle"
    /\ fresp = NoResponse
    /\ fres = NoResult
    /\ flog = <<>>
    /\ nReq = 0
    /\ fsent = 0

\* chapter(url) is called: `self.url.join(chapter_url)?`
FetchCall(joins) ==
    /\ fpc \in {"idle", "done"}
    /\ nReq < MaxFetches
    /\ fresp' = NoResponse
    /\ flog' = <<>>
    /\ IF joins
       THEN fpc' = "send" /\ fres' = NoResult
       ELSE fpc' = "done" /\ fres' = ErrResult("url", 0, "")
    /\ fsent' = 0
    /\ UNCHANGED <<fetchOthers, nReq>>

\* `self.client.get(..).send().await?` fails.
FetchSendFail ==
    /\ fpc = "send"
    /\ nReq' = nReq + 1
    /\ fsent' = fsent + 1
    /\ fres' = ErrResult("transport", 0, "")
    /\ fpc' = "done"
    /\ UNCHANGED <<fetchOthers, fresp, flog>>

\* A send that issues the request again when the answer is 429.
FetchSendRetry(r) ==
    /\ fpc = "send"
    /\ nReq' = nReq + 1
    /\ fsent' = fsent + 1
    /\ fresp' = r
    /\ fpc' = IF r.status = 429 /\ fsent < 1 THEN "send" ELSE "status"
    /\ UNCHANGED <<fetchOthers, fres, flog>>

\* The response r arrives.
FetchSend(r) ==
    /\ fpc = "send"
    /\ nReq' = nReq + 1
    /\ fsent' = fsent + 1
    /\ fresp' = r
    /\ fpc' = "status"
    /\ UNCHANGED <<fetchOthers, fres, flog>>

\* `match response.status()`
FetchStatus ==
    /\ fpc = "status"
    /\ CASE fresp.status = 200 ->
              /\ fpc' = "body"
              /\ UNCHANGED <<fres, flog>>
         [] fresp.status = 429 /\ fresp.retry = "absent" ->
              /\ fres' = ErrResult("no_retry_after", 0, "")
              /\ fpc' = "done"
              /\ UNCHANGED flog
         [] fresp.status = 429 /\ fresp.retry # "absent" ->
              /\ flog' = Append(flog, [msg |-> "rate_limited", status |-> 0,
                                       retry |-> HeaderText(fresp.retry)])
              /\ fres' = ErrResult("rate_limited", 0, "")
              /\ fpc' = "done"
         [] OTHER ->
              /\ flog' = Append(flog, [msg |-> "http_error",
                                       status |-> fresp.status,
                                       retry |-> ""])
              /\ fres' = ErrResult("http_error", fresp.status, "")
              /\ fpc' = "done"
    /\ UNCHANGED <<fetchOthers, fresp, nReq, fsent>>

\* `response.body_reader().utf8().await?`
FetchBody(isText) ==
    /\ fpc = "body"
    /\ fres' = IF isText THEN OkResult(fresp.body)
               ELSE ErrResult("utf8", 0, "")
    /\ fpc' = "done"
    /\ UNCHANGED <<fetchOthers, fresp, flog, nReq, fsent>>

FetchNext ==
    \/ \E joins \in BOOLEAN : FetchCall(joins)
    \/ FetchSendFail
    \/ \E r \in Responses : FetchSend(r)
    \/ FetchStatus
    \/ \E isText \in BOOLEAN : FetchBody(isText)

\* ------------------------------------------------------------------------
\* Downloader::novel_info, Downloader::image and the page fetch of
\* Downloader::chapters_sequential
\* ------------------------------------------------------------------------
FetchKinds == {"novel_info", "image", "page"}

PlainIdle ==
    /\ gpc = "idle"
    /\ gkind = "none"
    /\ gresp = NoResponse
    /\ gres = NoResult

\* The fetch begins.  Only image resolves a URL of its own first:
\* `self.url.join(image_url)?`.
PlainCall(kind, joins) ==
    /\ gpc \in {"idle", "done"}
    /\ kind = "image" \/ joins
    /\ gkind' = kind
    /\ gresp' = NoResponse
    /\ IF joins
       THEN gpc' = "send" /\ gres' = NoResult
       ELSE gpc' = "done" /\ gres' = ErrResult("url", 0, "")
    /\ UNCHANGED plainOthers

\* `self.client.get(..).send().await?` fails.
PlainSendFail ==
    /\ gpc = "send"
    /\ gres' = ErrResult("transport", 0, "")
    /\ gpc' = "done"
    /\ UNCHANGED <<plainOthers, gkind, gresp>>

\* The response r arrives; its status is not looked at.
PlainSend(r) ==
    /\ gpc = "send"
    /\ gresp' = r
    /\ gpc' = "body"
    /\ UNCHANGED <<plainOthers, gkind, gres>>

\* `response.body_reader().utf8().await?` (bytes() for an image): the body
\* read is what goes on to the parser or to write_image.
PlainBody(readable) ==
    /\ gpc = "body"
    /\ gres' = IF readable THEN OkResult(gresp.body)
               ELSE ErrResult("body", 0, "")
    /\ gpc' = "done"
    /\ UNCHANGED <<plainOthers, gkind, gresp>>

PlainNext ==
    \/ \E kind \in FetchKinds, joins \in BOOLEAN : PlainCall(kind, joins)
    \/ PlainSendFail
    \/ \E r \in Responses : PlainSend(r)
    \/ \E readable \in BOOLEAN : PlainBody(readable)

\* ------------------------------------------------------------------------
\* Downloader::new: the shared client (buffer, rate limit, concurrency
\* limit) and its clones
\* ------------------------------------------------------------------------
Clones == 1..MaxClones

Times == 0..MaxTime

\* A clone with a limiter stack of its own.
FreshLimiter(parent, c) == c

\* #[derive(Clone)] on Downloader: the clone's client is a handle to the
\* same buffer worker, hence to the parent's limiter stack.
CloneLimiter(parent, c) == climiter[parent]

\* RateLimit::new: Ready { until: now, rem: num }
RateReady(until, rem) == [limited |-> FALSE, until |-> until, rem |-> rem]

LimIdle ==
    /\ rateNum = 0
    /\ rateSecs = 0
    /\ concLimit = 0
    /\ lnow = 0
    /\ cst = [c \in Clones |-> "none"]
    /\ climiter = [c \in Clones |-> 0]
    /\ lqueue = [l \in Clones |-> <<>>]
    /\ lstate = [l \in Clones |-> RateReady(0, 0)]
    /\ lperm = [l \in Clones |-> 0]
    /\ lstarts = [t \in Times |-> 0]
    /\ lwins = {}
    /\ nStarted = 0

\* Downloader::new builds the one client of the crawl (clone 1).
LimInit ==
    /\ rateNum \in 1..MaxRate
    /\ rateSecs \in 1..MaxSecs
    /\ concLimit \in 1..MaxConc
    /\ lnow = 0
    /\ cst = [c \in Clones |-> IF c = 1 THEN "idle" ELSE "none"]
    /\ climiter = [c \in Clones |-> IF c = 1 THEN 1 ELSE 0]
    /\ lqueue = [l \in Clones |-> <<>>]
    /\ lstate = [l \in Clones |-> RateReady(0, rateNum)]
    /\ lperm = [l \in Clones |-> concLimit]
    /\ lstarts = [t \in Times |-> 0]
    /\ lwins = {}
    /\ nStarted = 0

\* downloader.clone() for a volume or chapter task.
LimClone(p, c) ==
    /\ cst[p] # "none"
    /\ cst[c] = "none"
    /\ cst' = [cst EXCEPT ![c] = "idle"]
    /\ climiter' = [climiter EXCEPT ![c] = CloneLimiter(p, c)]
    /\ UNCHANGED <<limOthers, rateNum, rateSecs, concLimit, lnow, lqueue,
                   lstate, lperm, lstarts, lwins, nStarted>>

\* A task calls self.client.get(..).send() (document, chapter or image):
\* the request enters the buffer.
LimRequest(c) ==
    /\ cst[c] = "idle"
    /\ nStarted < MaxReq
    /\ nStarted' = nStarted + 1
    /\ cst' = [cst EXCEPT ![c] = "queued"]
    /\ lqueue' = [lqueue EXCEPT ![climiter[c]] = Append(@, c)]
    /\ UNCHANGED <<limOthers, rateNum, rateSecs, concLimit, lnow, climiter,
                   lstate, lperm, lstarts, lwins>>

\* RateLimit::poll_ready in state Limited: once the sleep is over the
\* state is Ready { until: now + per, rem: num }.
LimWake(l) ==
    /\ lqueue[l] # <<>>
    /\ lstate[l].limited
    /\ lnow >= lstate[l].until
    /\ lstate' = [lstate EXCEPT ![l] = RateReady(lnow + rateSecs, rateNum)]
    /\ lwins' = lwins \cup {lnow}
    /\ UNCHANGED <<limOthers, rateNum, rateSecs, concLimit, lnow, cst,
                   climiter, lqueue, lperm, lstarts, nStarted>>

\* The buffer worker finds the stack ready (rate limit Ready, a permit of
\* the concurrency limit free) and calls it: RateLimit::call opens a new
\* window when the old one is over, takes one of the window's requests and
\* turns Limited when it was the last; the request is in flight.
LimDispatch(l) ==
    /\ lqueue[l] # <<>>
    /\ ~lstate[l].limited
    /\ lperm[l] > 0
    /\ LET c == Head(lqueue[l])
           opens == lnow >= lstate[l].until
           until == IF opens THEN lnow + rateSecs ELSE lstate[l].until
           rem == IF opens THEN rateNum ELSE lstate[l].rem
       IN /\ lstate' = [lstate EXCEPT ![l] =
                           IF rem > 1 THEN RateReady(until, rem - 1)
                           ELSE [limited |-> TRUE, until |-> until,
                                 rem |-> 0]]
          /\ lwins' = IF opens THEN lwins \cup {lnow} ELSE lwins
          /\ cst' = [cst EXCEPT ![c] = "inflight"]
    /\ lqueue' = [lqueue EXCEPT ![l] = Tail(@)]
    /\ lperm' = [lperm EXCEPT ![l] = @ - 1]
    /\ lstarts' = [lstarts EXCEPT ![lnow] = @ + 1]
    /\ UNCHANGED <<limOthers, rateNum, rateSecs, concLimit, lnow, climiter,
                   nStarted>>

\* The response arrives: the permit goes back.
LimResponse(c) ==
    /\ cst[c] = "inflight"
    /\ cst' = [cst EXCEPT ![c] = "idle"]
    /\ lperm' = [lperm EXCEPT ![climiter[c]] = @ + 1]
    /\ UNCHANGED <<limOthers, rateNum, rateSecs, concLimit, lnow, climiter,
                   lqueue, lstate, lstarts, lwins, nStarted>>

\* Time passes.
LimTick ==
    /\ lnow < MaxTime
    /\ lnow' = lnow + 1
    /\ UNCHANGED <<limOthers, rateNum, rateSecs, concLimit, cst, climiter,
                   lqueue, lstate, lperm, lstarts, lwins, nStarted>>

LimNext ==
    \/ \E p, c \in Clones : LimClone(p, c)
    \/ \E c \in Clones : LimRequest(c)
    \/ \E l \in Clones : LimWake(l)
    \/ \E l \in Clones : LimDispatch(l)
    \/ \E c \in Clones : LimResponse(c)
    \/ LimTick

\* ------------------------------------------------------------------------
\* crawl(): site config, VolOrChap and the Book aggregate
\* ------------------------------------------------------------------------
\* BookExtractor: `volumes: Option<..>`, `chapters: Option<..>`; next_url
\* is the Option of the chapter rule's content extractor.
Configs == [volumes : BOOLEAN, chapters : BOOLEAN, next_url : BOOLEAN]

\* VolOrChap as the pair of lists it stands for: which is populated, and
\* with how many entries.
Volumes(n) == [vol |-> TRUE, chap |-> FALSE, n |-> n]

Chapters(n) == [vol |-> FALSE, chap |-> TRUE, n |-> n]

\* impl Default for VolOrChap
DefaultChildren == Chapters(0)

\* A lookup that prefers the book's own chapter rule.
BookRuleFirst(c) ==
    IF c.chapters THEN "book.chapters"
    ELSE IF c.volumes THEN "volumes.chapters" ELSE "none"

\* SiteConfig::get_chapter_config
get_chapter_config(c) ==
    IF c.volumes THEN "volumes.chapters"
    ELSE IF c.chapters THEN "book.chapters" ELSE "none"

\* Parser::novel_info: the children the book document yields under the
\* config.
ParseChildren(c, n) == IF c.volumes THEN Volumes(n) ELSE Chapters(n)

AggIdle ==
    /\ cfg = [volumes |-> FALSE, chapters |-> FALSE, next_url |-> FALSE]
    /\ apc = "idle"
    /\ rule = "none"
    /\ echildren = DefaultChildren
    /\ taken = DefaultChildren

AggInit ==
    /\ cfg \in Configs
    /\ apc = "crawl"
    /\ rule = "none"
    /\ echildren = DefaultChildren
    /\ taken = DefaultChildren

\* crawl(): `get_chapter_config().expect("没有章节配置")`, then the mode.
AggCrawl ==
    /\ apc = "crawl"
    /\ rule' = get_chapter_config(cfg)
    /\ apc' = IF get_chapter_config(cfg) = "none" THEN "panic"
              ELSE IF cfg.next_url THEN "epub_sequential" ELSE "epub_task"
    /\ UNCHANGED <<aggOthers, cfg, echildren, taken>>

\* downloader.novel_info()?, parser.novel_info(..)?, the cover: an error.
AggParseFail ==
    /\ apc \in {"epub_sequential", "epub_task"}
    /\ apc' = "failed"
    /\ UNCHANGED <<aggOthers, cfg, rule, echildren, taken>>

\* parser.novel_info(..): the aggregate with n children.
AggParse(n) ==
    /\ apc \in {"epub_sequential", "epub_task"}
    /\ echildren' = ParseChildren(cfg, n)
    /\ apc' = IF apc = "epub_task" THEN "parsed" ELSE "parsed_sequential"
    /\ UNCHANGED <<aggOthers, cfg, rule, taken>>

\* epub_task: `take(&mut epub.children)` and the tasks spawned from it.
AggSpawn ==
    /\ apc = "parsed"
    /\ taken' = echildren
    /\ echildren' = DefaultChildren
    /\ apc' = "spawned"
    /\ UNCHANGED <<aggOthers, cfg, rule>>

\* set_epub_children: the collected volumes or chapters go back in.
AggCollect(ok) ==
    /\ apc = "spawned"
    /\ IF ok
       THEN /\ echildren' = IF taken.vol THEN Volumes(taken.n)
                            ELSE Chapters(taken.n)
            /\ apc' = "collected"
       ELSE /\ echildren' = echildren
            /\ apc' = "failed"
    /\ UNCHANGED <<aggOthers, cfg, rule, taken>>

\* epub_sequential: `take(&mut epub.children)`; the first chapter's URL is
\* unwrapped.
AggTakeSequential ==
    /\ apc = "parsed_sequential"
    /\ taken' = echildren
    /\ echildren' = DefaultChildren
    /\ apc' = IF echildren.n = 0 THEN "panic" ELSE "sequential"
    /\ UNCHANGED <<aggOthers, cfg, rule>>

\* volume_sequential / chapters_sequential return and
\* `epub.children = children`.
AggSequential(ok) ==
    /\ apc = "sequential"
    /\ IF ok
       THEN /\ echildren' = IF taken.vol THEN Volumes(taken.n)
                            ELSE Chapters(taken.n)
            /\ apc' = "collected"
       ELSE /\ echildren' = echildren
            /\ apc' = "failed"
    /\ UNCHANGED <<aggOthers, cfg, rule, taken>>

\* epub.generate()
AggGenerate ==
    /\ apc = "collected"
    /\ apc' = "generated"
    /\ UNCHANGED <<aggOthers, cfg, rule, echildren, taken>>

AggNext ==
    \/ AggCrawl
    \/ AggParseFail
    \/ \E n \in 0..MaxItems : AggParse(n)
    \/ AggSpawn
    \/ \E ok \in BOOLEAN : AggCollect(ok)
    \/ AggTakeSequential
    \/ \E ok \in BOOLEAN : AggSequential(ok)
    \/ AggGenerate

\* ------------------------------------------------------------------------
\* main: the run loop
\* ------------------------------------------------------------------------
MainIdle ==
    /\ mpc = "idle"
    /\ mres = "none"
    /\ mlog = <<>>
    /\ mexit = "none"

MainInit ==
    /\ mpc = "input"
    /\ mres = "none"
    /\ mlog = <<>>
    /\ mexit = "none"

\* `?` in main: main returns the error and the process ends.
Propagate(pc) == "exited"

\* `match get_user_input()`: Ok(novel_id) goes on to the crawl, Err(e) is
\* printed.
MainInput(ok) ==
    /\ mpc = "input"
    /\ Len(mlog) < MaxBooks
    /\ mres' = "none"
    /\ IF ok
       THEN mpc' = "crawl" /\ mlog' = mlog
       ELSE mpc' = "prompt" /\ mlog' = Append(mlog, "input error")
    /\ UNCHANGED <<mainOthers, mexit>>

\* `crawler.generate_epub(novel_id).await?` succeeds; the time is printed.
MainCrawlOk ==
    /\ mpc = "crawl"
    /\ mres' = "ok"
    /\ mlog' = Append(mlog, "done")
    /\ mpc' = "prompt"
    /\ UNCHANGED <<mainOthers, mexit>>

\* `crawler.generate_epub(novel_id).await?` fails.
MainCrawlErr ==
    /\ mpc = "crawl"
    /\ mres' = "err"
    /\ mlog' = Append(mlog, "error")
    /\ mpc' = Propagate(mpc)
    /\ mexit' = IF Propagate(mpc) = "exited" THEN "err" ELSE mexit
    /\ UNCHANGED mainOthers

\* The prompt "是否继续爬取其他小说? (y/n)": flush and read_line may fail;
\* "y" goes round the loop, anything else ends the program.
MainPrompt(io, again) ==
    /\ mpc = "prompt"
    /\ mres' = "none"
    /\ IF ~io THEN mpc' = "exited" /\ mexit' = "err"
       ELSE IF again THEN mpc' = "input" /\ mexit' = mexit
       ELSE mpc' = "exited" /\ mexit' = "ok"
    /\ UNCHANGED <<mainOthers, mlog>>

MainNext ==
    \/ \E ok \in BOOLEAN : MainInput(ok)
    \/ MainCrawlOk
    \/ MainCrawlErr
    \/ \E io, again \in BOOLEAN : MainPrompt(io, again)

\* ------------------------------------------------------------------------
\* Value and its folding (List, Current, Next, Combine)
\* ------------------------------------------------------------------------
\* A text is a string of characters; 0 is the character of Combine's
\* separator.
TextChars == {1, 2}

Texts == {<<c>> : c \in TextChars}

\* enum Value { Empty, Single(String), Multiple(Vec<String>) }
Empty == [tag |-> "Empty", texts |-> <<>>]

Single(t) == [tag |-> "Single", texts |-> <<t>>]

Multiple(ts) == [tag |-> "Multiple", texts |-> ts]

NoValue == [tag |-> "none", texts |-> <<>>]

TextLists == UNION {[1..k -> Texts] : k \in 1..MaxTexts}

Values ==
    {Empty} \cup {Single(t) : t \in Texts}
            \cup {Multiple(ts) : ts \in TextLists}

FoldKinds ==
    {"List.extract", "List.extract_all", "Current.extract_all",
     "Next.extract_all", "Combine.extract", "Combine.extract_all"}

\* A fold in which a Single replaces what was gathered before it.
SingleReplaces(rs, v) ==
    CASE v.tag = "Single" -> v.texts
      [] v.tag = "Multiple" -> rs \o v.texts
      [] OTHER -> rs

\* `match value { Single(v) => results.push(v), Multiple(vs) =>
\* results.extend(vs), Empty => () }`
Contribute(rs, v) ==
    CASE v.tag = "Single" -> Append(rs, v.texts[1])
      [] v.tag = "Multiple" -> rs \o v.texts
      [] OTHER -> rs

\* `if results.is_empty() { Empty } else { Multiple(results) }`
Folded(rs) == IF rs = <<>> THEN Empty ELSE Multiple(rs)

RECURSIVE Join(_, _)
\* combined.join(&self.separator)
Join(ts, sep) ==
    IF Len(ts) = 0 THEN <<>>
    ELSE IF Len(ts) = 1 THEN ts[1]
    ELSE ts[1] \o sep \o Join(Tail(ts), sep)

\* The matches the fold goes over: List.extract (and Combine.extract, which
\* calls it) takes the first container only.
Matches(kind, in) ==
    IF kind \in {"List.extract", "Combine.extract"} /\ Len(in) > 1
    THEN <<in[1]>> ELSE in

FoldIdle ==
    /\ xpc = "idle"
    /\ xkind = "none"
    /\ xin = <<>>
    /\ xi = 0
    /\ xresults = <<>>
    /\ xout = NoValue

FoldInit ==
    /\ xpc = "loop"
    /\ xkind \in FoldKinds
    /\ xin \in UNION {[1..k -> Values] : k \in 0..MaxMatches}
    /\ xi = 1
    /\ xresults = <<>>
    /\ xout = NoValue

\* One turn of the loop: the match's Value goes into results.
FoldStep ==
    /\ xpc = "loop"
    /\ xi <= Len(Matches(xkind, xin))
    /\ xresults' = Contribute(xresults, xin[xi])
    /\ xi' = xi + 1
    /\ UNCHANGED <<foldOthers, xpc, xkind, xin, xout>>

\* The loop is over: List, Current and Next return the folded results.
FoldReturn ==
    /\ xpc = "loop"
    /\ xi > Len(Matches(xkind, xin))
    /\ xkind \notin {"Combine.extract", "Combine.extract_all"}
    /\ xout' = Folded(xresults)
    /\ xpc' = "done"
    /\ UNCHANGED <<foldOthers, xkind, xin, xi, xresults>>

\* Combine: the List's Value is folded once more and joined.
FoldCombine ==
    /\ xpc = "loop"
    /\ xi > Len(Matches(xkind, xin))
    /\ xkind \in {"Combine.extract", "Combine.extract_all"}
    /\ LET combined == Contribute(<<>>, Folded(xresults))
       IN xout' = IF combined = <<>> THEN Empty
                  ELSE Single(Join(combined, <<0>>))
    /\ xpc' = "done"
    /\ UNCHANGED <<foldOthers, xkind, xin, xi, xresults>>

FoldNext ==
    \/ FoldStep
    \/ FoldReturn
    \/ FoldCombine

\* ------------------------------------------------------------------------
\* Next::extract
\* ------------------------------------------------------------------------
\* The text nodes of a candidate: one node "1", one node "2", one node
\* "12", or the two nodes "1" and "2" (as in 1<b>2</b>).
NodeLists == {<<(<<1>>)>>, <<(<<2>>)>>, <<(<<1, 2>>)>>, <<(<<1>>), (<<2>>)>>}

\* What the nested extractor yields on the candidate's next sibling
\* element; NoValue when the candidate has no next sibling element.
SiblingValues == {NoValue, Empty} \cup {Single(t) : t \in Texts}

Candidates == [nodes : NodeLists, sib : SiblingValues]

Conditions == {<<>>, <<1>>, <<1, 2>>}

\* str::contains
Contains(s, c) ==
    \E k \in 0..(Len(s) - Len(c)) : SubSeq(s, k + 1, k + Len(c)) = c

\* A test that takes every candidate.
AnyCandidate(cand, c) == TRUE

\* `base_elem.text().any(|t| t.contains(cond))`
Qualifies(cand, c) ==
    \E k \in 1..Len(cand.nodes) : Contains(cand.nodes[k], c)

NextIdle ==
    /\ npc = "idle"
    /\ ncond = <<>>
    /\ ncands = <<>>
    /\ ni = 0
    /\ nused = 0
    /\ nout = NoValue

NextInit ==
    /\ npc = "loop"
    /\ ncond \in Conditions
    /\ ncands \in UNION {[1..k -> Candidates] : k \in 0..MaxCands}
    /\ ni = 1
    /\ nused = 0
    /\ nout = NoValue

\* The candidate does not pass the condition: `continue`.
NextSkip ==
    /\ npc = "loop"
    /\ ni <= Len(ncands)
    /\ ~Qualifies(ncands[ni], ncond)
    /\ ni' = ni + 1
    /\ UNCHANGED <<nextOthers, npc, ncond, ncands, nused, nout>>

\* The candidate passes but has no next sibling element: the loop goes on.
NextNoSibling ==
    /\ npc = "loop"
    /\ ni <= Len(ncands)
    /\ Qualifies(ncands[ni], ncond)
    /\ ncands[ni].sib = NoValue
    /\ ni' = ni + 1
    /\ UNCHANGED <<nextOthers, npc, ncond, ncands, nused, nout>>

\* `return self.next.extract(sibling_elem)`
NextReturn ==
    /\ npc = "loop"
    /\ ni <= Len(ncands)
    /\ Qualifies(ncands[ni], ncond)
    /\ ncands[ni].sib # NoValue
    /\ nout' = ncands[ni].sib
    /\ nused' = ni
    /\ npc' = "done"
    /\ UNCHANGED <<nextOthers, ncond, ncands, ni>>

\* No candidate is left: Value::Empty.
NextEmpty ==
    /\ npc = "loop"
    /\ ni > Len(ncands)
    /\ nout' = Empty
    /\ npc' = "done"
    /\ UNCHANGED <<nextOthers, ncond, ncands, ni, nused>>

NextNext ==
    \/ NextSkip
    \/ NextNoSibling
    \/ NextReturn
    \/ NextEmpty

\* ------------------------------------------------------------------------
\* DoclnCrawler::volume_sequential / Downloader::chapters_sequential
\* ------------------------------------------------------------------------
Pages == {1, 2}

\* A reference as found in a page, the same resolved against the base URL,
\* and a string Url::join rejects.
Rel(p) == [abs |-> FALSE, page |-> p]
Abs(p) == [abs |-> TRUE, page |-> p]
BadRef == [abs |-> FALSE, page |-> 0]
NoNextUrl == [abs |-> FALSE, page |-> -1]
Refs == {Rel(p) : p \in Pages} \cup {BadRef}

\* `self.url.join(u)`: an absolute URL is kept as it is.
Joinable(u) == u.page \in Pages
join(u) == Abs(u.page)

PageIdle ==
    /\ upc = "idle"
    /\ uvols = <<>>
    /\ useed = NoNextUrl
    /\ ui = 0
    /\ uj = 0
    /\ unext = NoNextUrl
    /\ uflight = 0
    /\ ulog = <<>>
    /\ uext = <<>>

\* `let mut next_url = volumes.first().unwrap().chapters.first()...unwrap()`
PageInit ==
    /\ upc = "volume"
    /\ uvols \in UNION {[1..k -> 0..MaxChaps] : k \in 1..MaxVols}
    /\ uvols[1] >= 1
    /\ useed \in Refs
    /\ ui = 1
    /\ uj = 0
    /\ unext = useed
    /\ uflight = 0
    /\ ulog = <<>>
    /\ uext = <<>>

\* The volume's cover or cover page fails: `?` ends the crawl.
VolumeCoverFail ==
    /\ upc = "volume"
    /\ ui <= Len(uvols)
    /\ upc' = "failed"
    /\ UNCHANGED <<pageOthers, uvols, useed, ui, uj, unext, uflight, ulog,
                   uext>>

\* chapters_sequential is entered for the volume:
\* `*next_url = self.url.join(next_url)?.to_string()`
ChaptersJoin ==
    /\ upc = "volume"
    /\ ui <= Len(uvols)
    /\ IF Joinable(unext)
       THEN unext' = join(unext) /\ uj' = 1 /\ upc' = "loop"
       ELSE unext' = unext /\ uj' = uj /\ upc' = "failed"
    /\ UNCHANGED <<pageOthers, uvols, useed, ui, uflight, ulog, uext>>

\* `self.client.get(next_url.as_str()).send()`
PageRequest ==
    /\ upc = "loop"
    /\ uj <= uvols[ui]
    /\ ulog' = Append(ulog, unext)
    /\ uflight' = uflight + 1
    /\ upc' = "wait"
    /\ UNCHANGED <<pageOthers, uvols, useed, ui, uj, unext, uext>>

\* The request or the reading of its body fails.
PageSendFail ==
    /\ upc = "wait"
    /\ uflight' = uflight - 1
    /\ upc' = "failed"
    /\ UNCHANGED <<pageOthers, uvols, useed, ui, uj, unext, ulog, uext>>

\* The response has been read.
PageResponse ==
    /\ upc = "wait"
    /\ uflight' = uflight - 1
    /\ upc' = "parse"
    /\ UNCHANGED <<pageOthers, uvols, useed, ui, uj, unext, ulog, uext>>

\* No content element, or the paragraphs are not a Single.
PageParseFail ==
    /\ upc = "parse"
    /\ upc' = "failed"
    /\ UNCHANGED <<pageOthers, uvols, useed, ui, uj, unext, uflight, ulog,
                   uext>>

\* The page is parsed and extract_next_url gives Single(url): next_url
\* becomes the joined URL, or the join fails.
PageNextUrl(url) ==
    /\ upc = "parse"
    /\ uext' = Append(uext, url)
    /\ IF Joinable(url)
       THEN unext' = join(url) /\ uj' = uj + 1 /\ upc' = "loop"
       ELSE unext' = unext /\ uj' = uj /\ upc' = "failed"
    /\ UNCHANGED <<pageOthers, uvols, useed, ui, uflight, ulog>>

\* extract_next_url gives no Single: `return Ok(results)`; next_url keeps
\* the URL of the page just fetched and volume_sequential goes on.
PageNoNextUrl ==
    /\ upc = "parse"
    /\ uext' = Append(uext, NoNextUrl)
    /\ ui' = ui + 1
    /\ upc' = "volume"
    /\ UNCHANGED <<pageOthers, uvols, useed, uj, unext, uflight, ulog>>

\* The loop over the seed chapters ends: Ok(results).
ChaptersReturn ==
    /\ upc = "loop"
    /\ uj > uvols[ui]
    /\ ui' = ui + 1
    /\ upc' = "volume"
    /\ UNCHANGED <<pageOthers, uvols, useed, uj, unext, uflight, ulog, uext>>

\* Ok(volumes)
VolumesReturn ==
    /\ upc = "volume"
    /\ ui > Len(uvols)
    /\ upc' = "done"
    /\ UNCHANGED <<pageOthers, uvols, useed, ui, uj, unext, uflight, ulog,
                   uext>>

PageNext ==
    \/ VolumeCoverFail
    \/ ChaptersJoin
    \/ PageRequest
    \/ PageSendFail
    \/ PageResponse
    \/ PageParseFail
    \/ \E url \in Refs : PageNextUrl(url)
    \/ PageNoNextUrl
    \/ ChaptersReturn
    \/ VolumesReturn

\* ------------------------------------------------------------------------
\* Text::extract / Text::extract_all
\* ------------------------------------------------------------------------
\* The whitespace characters.
Blanks == {0}

\* The text nodes of an element: none, whitespace only, or with a letter.
ElemNodes ==
    {<<>>, <<(<<0>>)>>, <<(<<0>>), (<<0>>)>>, <<(<<1>>)>>,
     <<(<<0>>), (<<1>>)>>}

TextOps == {"extract", "extract_all"}

RECURSIVE Flatten(_)
\* `elem.text().collect::<String>()`
Flatten(nodes) ==
    IF nodes = <<>> THEN <<>> ELSE Head(nodes) \o Flatten(Tail(nodes))

TextIdle ==
    /\ tpc = "idle"
    /\ top = "none"
    /\ tsel = FALSE
    /\ telems = <<>>
    /\ ti = 0
    /\ tresults = <<>>
    /\ tout = NoValue

\* With a selector the elements it matches are read, without one the
\* context element itself.
TextInit ==
    /\ tpc = "called"
    /\ top \in TextOps
    /\ tsel \in BOOLEAN
    /\ IF tsel
       THEN telems \in UNION {[1..k -> ElemNodes] : k \in 0..MaxMatches}
       ELSE telems \in [1..1 -> ElemNodes]
    /\ ti = 1
    /\ tresults = <<>>
    /\ tout = NoValue

\* extract: `element.select(selector).next()` is None.
TextExtractNone ==
    /\ tpc = "called"
    /\ top = "extract"
    /\ telems = <<>>
    /\ tout' = Empty
    /\ tpc' = "done"
    /\ UNCHANGED <<textOthers, top, tsel, telems, ti, tresults>>

\* extract: `if text.is_empty() { Empty } else { Single(text) }`
TextExtract ==
    /\ tpc = "called"
    /\ top = "extract"
    /\ telems # <<>>
    /\ LET text == Flatten(telems[1])
       IN  tout' = IF text = <<>> THEN Empty ELSE Single(text)
    /\ tpc' = "done"
    /\ UNCHANGED <<textOthers, top, tsel, telems, ti, tresults>>

\* extract_all: `results.push(text)`
TextPush ==
    /\ tpc = "called"
    /\ top = "extract_all"
    /\ ti <= Len(telems)
    /\ tresults' = Append(tresults, Flatten(telems[ti]))
    /\ ti' = ti + 1
    /\ UNCHANGED <<textOthers, tpc, top, tsel, telems, tout>>

\* extract_all: Empty if `results.is_empty()`, else Multiple(results).
TextReturn ==
    /\ tpc = "called"
    /\ top = "extract_all"
    /\ ti > Len(telems)
    /\ tout' = IF tresults = <<>> THEN Empty ELSE Multiple(tresults)
    /\ tpc' = "done"
    /\ UNCHANGED <<textOthers, top, tsel, telems, ti, tresults>>

TextNext ==
    \/ TextExtractNone
    \/ TextExtract
    \/ TextPush
    \/ TextReturn

\* ------------------------------------------------------------------------
\* Url::extract / Url::extract_all
\* ------------------------------------------------------------------------
\* An attribute value is a sequence of tokens: 1 is text in which the link
\* finder sees no URL (a word, a relative path), 2 and 3 are two URLs.
LinkTokens == {2, 3}

AttrTexts == {<<1>>, <<2>>, <<1, 2>>, <<2, 3>>, <<2, 1, 3>>}

AttrNames == {"href", "src", "style"}

UrlOps == {"extract", "extract_all"}

\* Attr::extract gives Empty or a Single, Attr::extract_all Empty or a
\* Multiple.
AttrValues(op) ==
    IF op = "extract"
    THEN {Empty} \cup {Single(t) : t \in AttrTexts}
    ELSE {Empty} \cup
         {Multiple(ts) :
             ts \in UNION {[1..n -> AttrTexts] : n \in 1..MaxMatches}}

IsLink(c) == c \in LinkTokens

\* `finder.links(&text).map(|l| l.as_str().to_string())`
Links(text) ==
    LET found == SelectSeq(text, IsLink)
    IN  [n \in 1..Len(found) |-> <<found[n]>>]

UrlIdle ==
    /\ kpc = "idle"
    /\ kop = "none"
    /\ kname = "none"
    /\ kin = NoValue
    /\ ki = 0
    /\ kurls = <<>>
    /\ kout = NoValue

\* `let value = self.inner.extract(element)` (extract_all for extract_all)
UrlInit ==
    /\ kpc = "called"
    /\ kop \in UrlOps
    /\ kname \in AttrNames
    /\ kin \in AttrValues(kop)
    /\ ki = 1
    /\ kurls = <<>>
    /\ kout = NoValue

\* extract: `if self.inner.name == "href" || self.inner.name == "src"
\* { return value; }`
UrlPassThrough ==
    /\ kpc = "called"
    /\ kop = "extract"
    /\ kname \in {"href", "src"}
    /\ kout' = kin
    /\ kpc' = "done"
    /\ UNCHANGED <<urlOthers, kop, kname, kin, ki, kurls>>

\* The scan begins: in extract for another attribute, in extract_all always.
UrlBegin ==
    /\ kpc = "called"
    /\ ~(kop = "extract" /\ kname \in {"href", "src"})
    /\ kpc' = "scan"
    /\ UNCHANGED <<urlOthers, kop, kname, kin, ki, kurls, kout>>

\* `urls.extend(finder.links(&text)...)` for the next text of the value.
UrlScanText ==
    /\ kpc = "scan"
    /\ ki <= Len(kin.texts)
    /\ kurls' = kurls \o Links(kin.texts[ki])
    /\ ki' = ki + 1
    /\ UNCHANGED <<urlOthers, kpc, kop, kname, kin, kout>>

\* extract: `match urls.len() { 0 => Empty, 1 => Single, _ => Multiple }`
UrlReturn ==
    /\ kpc = "scan"
    /\ kop = "extract"
    /\ ki > Len(kin.texts)
    /\ kout' = IF Len(kurls) = 0 THEN Empty
               ELSE IF Len(kurls) = 1 THEN Single(kurls[1])
               ELSE Multiple(kurls)
    /\ kpc' = "done"
    /\ UNCHANGED <<urlOthers, kop, kname, kin, ki, kurls>>

\* extract_all: `if urls.is_empty() { Empty } else { Multiple(urls) }`
UrlAllReturn ==
    /\ kpc = "scan"
    /\ kop = "extract_all"
    /\ ki > Len(kin.texts)
    /\ kout' = IF kurls = <<>> THEN Empty ELSE Multiple(kurls)
    /\ kpc' = "done"
    /\ UNCHANGED <<urlOthers, kop, kname, kin, ki, kurls>>

UrlNext ==
    \/ UrlPassThrough
    \/ UrlBegin
    \/ UrlScanText
    \/ UrlReturn
    \/ UrlAllReturn

\* ------------------------------------------------------------------------
\* Parser::volumes / Parser::volume_chapters
\* ------------------------------------------------------------------------
\* A chapter item is TRUE when it has a name, a link, a title and a URL.
ChapterItems == UNION {[1..n -> BOOLEAN] : n \in 0..MaxChaps}

\* A volume item: has it a data-scrollto id, and the chapter items listed
\* under the header with that id.
VolumeItems == [id : BOOLEAN, items : ChapterItems]

Documents == UNION {[1..n -> VolumeItems] : n \in 0..MaxVols}

Digit == <<"0", "1", "2", "3", "4", "5", "6", "7", "8", "9">>

RECURSIVE Digits(_)
\* `{}` of an unsigned number in format!
Digits(n) ==
    IF n < 10 THEN <<Digit[n + 1]>>
    ELSE Digits(n \div 10) \o <<Digit[(n % 10) + 1]>>

\* A chapter name that leaves the volume out.
NameWithoutVolume(index, chapter_index) ==
    Digits(chapter_index + 1) \o <<".xhtml">>

\* `format!("{}_{}.xhtml", index + 1, chapter_index + 1)`
ChapterFilename(index, chapter_index) ==
    Digits(index + 1) \o <<"_">> \o Digits(chapter_index + 1) \o <<".xhtml">>

\* `format!("{}_cover.xhtml", index + 1)`
CoverFilename(index) == Digits(index + 1) \o <<"_", "cover", ".xhtml">>

\* volume_info: the items with a non-empty data-scrollto, in order.
volume_info(doc) == SelectSeq(doc, LAMBDA item : item.id)

ParseIdle ==
    /\ ppc = "idle"
    /\ pdoc = <<>>
    /\ pinfos = <<>>
    /\ pv = 0
    /\ pci = 0
    /\ pchapters = <<>>
    /\ pvolumes = <<>>

ParseInit ==
    /\ ppc = "called"
    /\ pdoc \in Documents
    /\ pinfos = <<>>
    /\ pv = 0
    /\ pci = 0
    /\ pchapters = <<>>
    /\ pvolumes = <<>>

\* `let volume_infos = self.volume_info(document)`
ParseVolumeInfo ==
    /\ ppc = "called"
    /\ pinfos' = volume_info(pdoc)
    /\ ppc' = "chapters"
    /\ UNCHANGED <<parseOthers, pdoc, pv, pci, pchapters, pvolumes>>

\* volume_chapters: the item lacks a name, a link, a title or a URL.
ParseChapterSkip ==
    /\ ppc = "chapters"
    /\ pv < Len(pinfos)
    /\ pci < Len(pinfos[pv + 1].items)
    /\ ~pinfos[pv + 1].items[pci + 1]
    /\ pci' = pci + 1
    /\ UNCHANGED <<parseOthers, ppc, pdoc, pinfos, pv, pchapters, pvolumes>>

\* volume_chapters: `chapters.push(Chapter { .. filename, .. })`
ParseChapterPush ==
    /\ ppc = "chapters"
    /\ pv < Len(pinfos)
    /\ pci < Len(pinfos[pv + 1].items)
    /\ pinfos[pv + 1].items[pci + 1]
    /\ pchapters' = Append(pchapters, [num |-> pci + 1,
                                       filename |-> ChapterFilename(pv, pci)])
    /\ pci' = pci + 1
    /\ UNCHANGED <<parseOthers, ppc, pdoc, pinfos, pv, pvolumes>>

\* volumes: `volumes.push(Volume { .. chapters, cover_chapter })`
ParseVolumePush ==
    /\ ppc = "chapters"
    /\ pv < Len(pinfos)
    /\ pci >= Len(pinfos[pv + 1].items)
    /\ pvolumes' = Append(pvolumes, [num |-> pv + 1,
                                     cover |-> CoverFilename(pv),
                                     chapters |-> pchapters])
    /\ pchapters' = <<>>
    /\ pci' = 0
    /\ pv' = pv + 1
    /\ UNCHANGED <<parseOthers, ppc, pdoc, pinfos>>

\* Ok(volumes)
ParseReturn ==
    /\ ppc = "chapters"
    /\ pv >= Len(pinfos)
    /\ ppc' = "done"
    /\ UNCHANGED <<parseOthers, pdoc, pinfos, pv, pci, pchapters, pvolumes>>

ParseNext ==
    \/ ParseVolumeInfo
    \/ ParseChapterSkip
    \/ ParseChapterPush
    \/ ParseVolumePush
    \/ ParseReturn

\* ------------------------------------------------------------------------
\* Parser::novel_info
\* ------------------------------------------------------------------------
\* Texts of the book page: 0 is a whitespace character, 1 a letter. The
\* labels "Tác giả:" and "Họa sĩ:" and the error messages are written in
\* ASCII.
PageTexts == {<<>>, <<0>>, <<1>>, <<0, 1, 0>>}

ItemNames == {"Tac gia:", "Hoa si:", ""}

InfoItems == [name : ItemNames, value : PageTexts]

RECURSIVE TrimStart(_)
TrimStart(t) ==
    IF t # <<>> /\ Head(t) \in Blanks THEN TrimStart(Tail(t)) ELSE t

RECURSIVE TrimEnd(_)
TrimEnd(t) ==
    IF t # <<>> /\ t[Len(t)] \in Blanks
    THEN TrimEnd(SubSeq(t, 1, Len(t) - 1))
    ELSE t

\* str::trim
Trim(t) == TrimEnd(TrimStart(t))

RECURSIVE items(_)
\* Parser::items: the map of the items whose trimmed name and value are
\* both non-empty; a later item replaces an earlier one of the same name.
items(info_items) ==
    IF info_items = <<>> THEN [n \in {} |-> <<>>]
    ELSE LET last == info_items[Len(info_items)]
             rest == items(SubSeq(info_items, 1, Len(info_items) - 1))
         IN  IF last.name # "" /\ Trim(last.value) # <<>>
             THEN [n \in DOMAIN rest \cup {last.name} |->
                      IF n = last.name THEN Trim(last.value) ELSE rest[n]]
             ELSE rest

NoBook == [title |-> <<>>, author |-> <<>>]

InfoIdle ==
    /\ ipc = "idle"
    /\ ititle = NoValue
    /\ iitems = <<>>
    /\ isummary = FALSE
    /\ ibook = NoBook
    /\ ires = [kind |-> "none", msg |-> "", book |-> NoBook]

InfoInit ==
    /\ ipc = "title"
    /\ ititle \in {NoValue} \cup {Single(t) : t \in PageTexts}
    /\ iitems \in UNION {[1..n -> InfoItems] : n \in 0..MaxItems}
    /\ isummary \in BOOLEAN
    /\ ibook = NoBook
    /\ ires = [kind |-> "none", msg |-> "", book |-> NoBook]

\* What `?` returns from novel_info.
InfoErr(msg) == [kind |-> "err", msg |-> msg, book |-> NoBook]

\* novel_title: no element: "未找到小说标题".
InfoTitleMissing ==
    /\ ipc = "title"
    /\ ititle = NoValue
    /\ ires' = InfoErr("title not found")
    /\ ipc' = "done"
    /\ UNCHANGED <<infoOthers, ititle, iitems, isummary, ibook>>

\* novel_title: the element's text, trimmed.
InfoTitle ==
    /\ ipc = "title"
    /\ ititle # NoValue
    /\ ibook' = [ibook EXCEPT !.title = Trim(ititle.texts[1])]
    /\ ipc' = "author"
    /\ UNCHANGED <<infoOthers, ititle, iitems, isummary, ires>>

\* author: items() finds no item: "未找到任何信息项".
InfoNoItems ==
    /\ ipc = "author"
    /\ DOMAIN items(iitems) = {}
    /\ ires' = InfoErr("no info item found")
    /\ ipc' = "done"
    /\ UNCHANGED <<infoOthers, ititle, iitems, isummary, ibook>>

\* author: no item "Tac gia:": "未找到作者信息".
InfoAuthorMissing ==
    /\ ipc = "author"
    /\ DOMAIN items(iitems) # {}
    /\ "Tac gia:" \notin DOMAIN items(iitems)
    /\ ires' = InfoErr("author not found")
    /\ ipc' = "done"
    /\ UNCHANGED <<infoOthers, ititle, iitems, isummary, ibook>>

\* author: `Ok(author.clone())`; illustrator reads the same items.
InfoAuthor ==
    /\ ipc = "author"
    /\ "Tac gia:" \in DOMAIN items(iitems)
    /\ ibook' = [ibook EXCEPT !.author = items(iitems)["Tac gia:"]]
    /\ ipc' = "summary"
    /\ UNCHANGED <<infoOthers, ititle, iitems, isummary, ires>>

\* summary: "未找到简介内容".
InfoSummaryMissing ==
    /\ ipc = "summary"
    /\ ~isummary
    /\ ires' = InfoErr("summary not found")
    /\ ipc' = "done"
    /\ UNCHANGED <<infoOthers, ititle, iitems, isummary, ibook>>

\* `Ok(epub)`
InfoReturn ==
    /\ ipc = "summary"
    /\ isummary
    /\ ires' = [kind |-> "ok", msg |-> "", book |-> ibook]
    /\ ipc' = "done"
    /\ UNCHANGED <<infoOthers, ititle, iitems, isummary, ibook>>

InfoNext ==
    \/ InfoTitleMissing
    \/ InfoTitle
    \/ InfoNoItems
    \/ InfoAuthorMissing
    \/ InfoAuthor
    \/ InfoSummaryMissing
    \/ InfoReturn

\* ------------------------------------------------------------------------
\* Config::get_jar
\* ------------------------------------------------------------------------
Sites == 1..MaxSites

CookieKeys == {"a", "b"}

\* No auth record, a token, or cookie entries (`key=value` strings).
AuthTypes ==
    {[kind |-> "none", cookies |-> {}], [kind |-> "Token", cookies |-> {}]}
    \cup {[kind |-> "Cookies", cookies |-> cs] : cs \in SUBSET CookieKeys}

\* `SITE_CONFIG[name].base_url`
base_url(site) == [scheme |-> "https", host |-> site, path |-> "/book"]

\* `format!("{}://{}", url.scheme(), url.host_str().unwrap())`
Origin(url) == [scheme |-> url.scheme, host |-> url.host]

\* The orders in which a HashMap may yield its keys.
Orders == {o \in [Sites -> Sites] : \A s \in Sites : \E k \in Sites : o[k] = s}

JarIdle ==
    /\ jpc = "idle"
    /\ jauth = <<>>
    /\ jorder = <<>>
    /\ jpos = 0
    /\ jleft = {}
    /\ jar = {}

\* `let jar = Jar::default()`
JarInit ==
    /\ jpc = "sites"
    /\ jauth \in [Sites -> AuthTypes]
    /\ jorder \in Orders
    /\ jpos = 1
    /\ jleft = {}
    /\ jar = {}

\* The site has no auth record, or a token.
JarSkipSite ==
    /\ jpc = "sites"
    /\ jpos <= MaxSites
    /\ jauth[jorder[jpos]].kind # "Cookies"
    /\ jpos' = jpos + 1
    /\ UNCHANGED <<jarOthers, jpc, jauth, jorder, jleft, jar>>

\* `if let AuthType::Cookies(cookies) = auth_type`
JarCookies ==
    /\ jpc = "sites"
    /\ jpos <= MaxSites
    /\ jauth[jorder[jpos]].kind = "Cookies"
    /\ jleft' = jauth[jorder[jpos]].cookies
    /\ jpc' = "cookies"
    /\ UNCHANGED <<jarOthers, jauth, jorder, jpos, jar>>

\* `jar.add_cookie_str(&format!("{}={}", key, value), &url)`
JarAddCookie(c) ==
    /\ jpc = "cookies"
    /\ c \in jleft
    /\ jar' = jar \cup {[url |-> Origin(base_url(jorder[jpos])), cookie |-> c]}
    /\ jleft' = jleft \ {c}
    /\ UNCHANGED <<jarOthers, jpc, jauth, jorder, jpos>>

\* The cookies of the site are added: `return Arc::new(jar)`.
JarReturnFirst ==
    /\ jpc = "cookies"
    /\ jleft = {}
    /\ jpc' = "done"
    /\ UNCHANGED <<jarOthers, jauth, jorder, jpos, jleft, jar>>

\* No site has cookie entries: `Arc::new(jar)` after the loop.
JarReturn ==
    /\ jpc = "sites"
    /\ jpos > MaxSites
    /\ jpc' = "done"
    /\ UNCHANGED <<jarOthers, jauth, jorder, jpos, jleft, jar>>

JarNext ==
    \/ JarSkipSite
    \/ JarCookies
    \/ \E c \in CookieKeys : JarAddCookie(c)
    \/ JarReturnFirst
    \/ JarReturn

\* ------------------------------------------------------------------------
\* CrawlerTaskManager::wait_all_tasks
\* ------------------------------------------------------------------------
Jobs == 1..MaxJobs

\* A task counts as joined from the start.
JoinedWhenSpawned(t) == TRUE

\* join_next yields a task when it has ended, by return or by panic.
Joined(t) == yst[t] \in {"done", "panicked"}

WaitIdle ==
    /\ ypc = "idle"
    /\ ylock = FALSE
    /\ ywait = {}
    /\ yst = <<>>
    /\ ykind = <<>>
    /\ yparent = <<>>
    /\ ybefore = <<>>
    /\ ysem = 0
    /\ ychap = {}
    /\ yimg = {}
    /\ yn = 0

\* CrawlerTaskManager::new(5), nothing spawned.
WaitInit ==
    /\ ypc = "spawning"
    /\ ylock = FALSE
    /\ ywait = {}
    /\ yst = [t \in Jobs |-> "none"]
    /\ ykind = [t \in Jobs |-> "none"]
    /\ yparent = [t \in Jobs |-> 0]
    /\ ybefore = [t \in Jobs |-> FALSE]
    /\ ysem = DefaultMaxConcurrent
    /\ ychap = {}
    /\ yimg = {}
    /\ yn = 0

\* spawn_chapter: spawn_task_internal under the manager lock.
WaitSpawnChapter ==
    /\ ~ylock
    /\ yn < MaxJobs
    /\ yn' = yn + 1
    /\ yst' = [yst EXCEPT ![yn + 1] = "waiting"]
    /\ ykind' = [ykind EXCEPT ![yn + 1] = "chapter"]
    /\ ybefore' = [ybefore EXCEPT ![yn + 1] = (ypc = "spawning")]
    /\ ychap' = ychap \cup {yn + 1}
    /\ UNCHANGED <<waitOthers, ypc, ylock, ywait, yparent, ysem, yimg>>

\* spawn_image, called by download_illustration in the body of the
\* chapter task p.
WaitSpawnImage(p) ==
    /\ ~ylock
    /\ yn < MaxJobs
    /\ ykind[p] = "chapter"
    /\ yst[p] = "running"
    /\ yn' = yn + 1
    /\ yst' = [yst EXCEPT ![yn + 1] = "waiting"]
    /\ ykind' = [ykind EXCEPT ![yn + 1] = "image"]
    /\ yparent' = [yparent EXCEPT ![yn + 1] = p]
    /\ ybefore' = [ybefore EXCEPT ![yn + 1] = (ypc = "spawning")]
    /\ yimg' = yimg \cup {yn + 1}
    /\ UNCHANGED <<waitOthers, ypc, ylock, ywait, ysem, ychap>>

\* The wrapper: `let _permit = semaphore.acquire().await;`
WaitAcquire(t) ==
    /\ yst[t] = "waiting"
    /\ ysem > 0
    /\ ysem' = ysem - 1
    /\ yst' = [yst EXCEPT ![t] = "running"]
    /\ UNCHANGED <<waitOthers, ypc, ylock, ywait, ykind, yparent, ybefore,
                   ychap, yimg, yn>>

\* The task body returns, or panics (an `expect` fails): the permit is
\* dropped either way.
WaitFinish(t, how) ==
    /\ yst[t] = "running"
    /\ ysem' = ysem + 1
    /\ yst' = [yst EXCEPT ![t] = how]
    /\ UNCHANGED <<waitOthers, ypc, ylock, ywait, ykind, yparent, ybefore,
                   ychap, yimg, yn>>

\* wait_all_tasks: lock the manager and take chapter_tasks.
WaitTakeChapters ==
    /\ ypc = "spawning"
    /\ ylock' = TRUE
    /\ ywait' = ychap
    /\ ychap' = {}
    /\ ypc' = "took chapters"
    /\ UNCHANGED <<waitOthers, yst, ykind, yparent, ybefore, ysem, yimg, yn>>

\* wait_all_tasks: the chapter tasks are all joined; lock the manager and
\* take image_tasks.
WaitTakeImages ==
    /\ ypc = "chapters"
    /\ ywait = {}
    /\ ylock' = TRUE
    /\ ywait' = yimg
    /\ yimg' = {}
    /\ ypc' = "took images"
    /\ UNCHANGED <<waitOthers, yst, ykind, yparent, ybefore, ysem, ychap, yn>>

\* The block ends and the guard is dropped; wait_tasks begins.
WaitUnlock ==
    /\ ylock
    /\ ylock' = FALSE
    /\ ypc' = IF ypc = "took chapters" THEN "chapters" ELSE "images"
    /\ UNCHANGED <<waitOthers, ywait, yst, ykind, yparent, ybefore, ysem,
                   ychap, yimg, yn>>

\* wait_tasks: `tasks.join_next().await` yields a task; an Err is printed.
WaitJoin(t) ==
    /\ ypc \in {"chapters", "images"}
    /\ t \in ywait
    /\ Joined(t)
    /\ ywait' = ywait \ {t}
    /\ UNCHANGED <<waitOthers, ypc, ylock, yst, ykind, yparent, ybefore,
                   ysem, ychap, yimg, yn>>

\* wait_all_tasks returns.
WaitReturn ==
    /\ ypc = "images"
    /\ ywait = {}
    /\ ypc' = "returned"
    /\ UNCHANGED <<waitOthers, ylock, ywait, yst, ykind, yparent, ybefore,
                   ysem, ychap, yimg, yn>>

WaitNext ==
    \/ WaitSpawnChapter
    \/ \E p \in Jobs : WaitSpawnImage(p)
    \/ \E t \in Jobs : WaitAcquire(t)
    \/ \E t \in Jobs : \E how \in {"done", "panicked"} : WaitFinish(t, how)
    \/ WaitTakeChapters
    \/ WaitTakeImages
    \/ WaitUnlock
    \/ \E t \in Jobs : WaitJoin(t)
    \/ WaitReturn

\* ------------------------------------------------------------------------
\* Compressor::compress_epub
\* ------------------------------------------------------------------------
\* A path below the root is the sequence of its names.  Directories are
\* named "d", regular files "mimetype" or "x".
FileNames == {"mimetype", "x"}

DirPath(n) == [k \in 1..n |-> "d"]

\* The working trees: the directories down to some depth, and regular
\* files in them.
Trees ==
    UNION {
       {[dirs |-> {DirPath(k) : k \in 0..n}, files |-> fs] :
           fs \in SUBSET {DirPath(k) \o <<f>> : k \in 0..n, f \in FileNames}}
       : n \in 0..MaxDepth}

\* What read_dir yields for a directory: the names of its entries.
Entries(tree, dir) ==
    {f \in FileNames : dir \o <<f>> \in tree.files}
    \cup {d \in {"d"} : dir \o <<d>> \in tree.dirs}

\* A scan that skips every file named mimetype.
SkipsEveryMimetype(name, current_base_path) == name = "mimetype"

\* `name == "mimetype" && current_base_path.is_empty()`
Skipped(name, current_base_path) ==
    name = "mimetype" /\ current_base_path = <<>>

\* `format!("{}/{}", current_base_path, name)`, or the name at the root.
ZipPath(current_base_path, name) ==
    IF current_base_path = <<>> THEN <<name>>
    ELSE current_base_path \o <<"/", name>>

NoDir == [dir |-> <<>>, base |-> <<>>]

ZipIdle ==
    /\ zpc = "idle"
    /\ ztree = [dirs |-> {}, files |-> {}]
    /\ zexists = FALSE
    /\ zstack = <<>>
    /\ zcur = NoDir
    /\ zentries = {}
    /\ zsubs = <<>>
    /\ zspawned = <<>>
    /\ zarchive = <<>>
    /\ zclosed = FALSE
    /\ zrm = "none"

\* File::create and ZipFileWriter::with_tokio have succeeded.
ZipInit ==
    /\ zpc = "mimetype"
    /\ ztree \in Trees
    /\ zexists = TRUE
    /\ zstack = <<>>
    /\ zcur = NoDir
    /\ zentries = {}
    /\ zsubs = <<>>
    /\ zspawned = <<>>
    /\ zarchive = <<>>
    /\ zclosed = FALSE
    /\ zrm = "none"

\* add_mimetype: `fs::read(&path).await?` fails, there is no such file.
ZipMimetypeFail ==
    /\ zpc = "mimetype"
    /\ <<"mimetype">> \notin ztree.files
    /\ zpc' = "failed"
    /\ UNCHANGED <<zipOthers, ztree, zexists, zstack, zcur, zentries, zsubs,
                   zspawned, zarchive, zclosed, zrm>>

\* add_mimetype: the entry "mimetype" is written with Compression::Stored;
\* scan_and_spawn_tasks begins with the root on the stack.
ZipMimetype ==
    /\ zpc = "mimetype"
    /\ <<"mimetype">> \in ztree.files
    /\ zarchive' = Append(zarchive, [path |-> <<"mimetype">>,
                                     method |-> "Stored"])
    /\ zstack' = <<NoDir>>
    /\ zpc' = "pop"
    /\ UNCHANGED <<zipOthers, ztree, zexists, zcur, zentries, zsubs,
                   zspawned, zclosed, zrm>>

\* `while let Some((current_dir, current_base_path)) = stack.pop()`
ZipPop ==
    /\ zpc = "pop"
    /\ zstack # <<>>
    /\ zcur' = zstack[Len(zstack)]
    /\ zstack' = SubSeq(zstack, 1, Len(zstack) - 1)
    /\ zentries' = Entries(ztree, zstack[Len(zstack)].dir)
    /\ zsubs' = <<>>
    /\ zpc' = "entries"
    /\ UNCHANGED <<zipOthers, ztree, zexists, zspawned, zarchive, zclosed,
                   zrm>>

\* next_entry yields the root's mimetype: `continue`.
ZipSkip(name) ==
    /\ zpc = "entries"
    /\ name \in zentries
    /\ Skipped(name, zcur.base)
    /\ zentries' = zentries \ {name}
    /\ UNCHANGED <<zipOthers, zpc, ztree, zexists, zstack, zcur, zsubs,
                   zspawned, zarchive, zclosed, zrm>>

\* next_entry yields a directory: `sub_dirs.push((path, zip_path))`.
ZipSubDir(name) ==
    /\ zpc = "entries"
    /\ name \in zentries
    /\ ~Skipped(name, zcur.base)
    /\ zcur.dir \o <<name>> \in ztree.dirs
    /\ zsubs' = Append(zsubs, [dir |-> zcur.dir \o <<name>>,
                               base |-> ZipPath(zcur.base, name)])
    /\ zentries' = zentries \ {name}
    /\ UNCHANGED <<zipOthers, zpc, ztree, zexists, zstack, zcur, zspawned,
                   zarchive, zclosed, zrm>>

\* next_entry yields a file: a task reading it is spawned.
ZipSpawn(name) ==
    /\ zpc = "entries"
    /\ name \in zentries
    /\ ~Skipped(name, zcur.base)
    /\ zcur.dir \o <<name>> \notin ztree.dirs
    /\ zspawned' = Append(zspawned, [src |-> zcur.dir \o <<name>>,
                                     path |-> ZipPath(zcur.base, name)])
    /\ zentries' = zentries \ {name}
    /\ UNCHANGED <<zipOthers, zpc, ztree, zexists, zstack, zcur, zsubs,
                   zarchive, zclosed, zrm>>

\* The directory is read: its sub-directories are pushed in reverse.
ZipPush ==
    /\ zpc = "entries"
    /\ zentries = {}
    /\ zstack' = zstack \o [k \in 1..Len(zsubs) |-> zsubs[Len(zsubs) + 1 - k]]
    /\ zsubs' = <<>>
    /\ zpc' = "pop"
    /\ UNCHANGED <<zipOthers, ztree, zexists, zcur, zentries, zspawned,
                   zarchive, zclosed, zrm>>

\* The stack is empty: add_directory waits for the tasks.
ZipScanned ==
    /\ zpc = "pop"
    /\ zstack = <<>>
    /\ zpc' = "write"
    /\ UNCHANGED <<zipOthers, ztree, zexists, zstack, zcur, zentries, zsubs,
                   zspawned, zarchive, zclosed, zrm>>

\* A read task fails (wait gives its error), or a write to the archive or
\* its close fails.
ZipIoFail ==
    /\ zpc = "write"
    /\ zpc' = "failed"
    /\ UNCHANGED <<zipOthers, ztree, zexists, zstack, zcur, zentries, zsubs,
                   zspawned, zarchive, zclosed, zrm>>

\* The next result of wait is written with Compression::Deflate; wait gives
\* the results in an order of its own.
ZipWrite(k) ==
    /\ zpc = "write"
    /\ k \in 1..Len(zspawned)
    /\ zarchive' = Append(zarchive, [path |-> zspawned[k].path,
                                     method |-> "Deflate"])
    /\ zspawned' = [j \in 1..(Len(zspawned) - 1) |->
                       IF j < k THEN zspawned[j] ELSE zspawned[j + 1]]
    /\ UNCHANGED <<zipOthers, zpc, ztree, zexists, zstack, zcur, zentries,
                   zsubs, zclosed, zrm>>

\* `writer.close().await?`
ZipClose ==
    /\ zpc = "write"
    /\ zspawned = <<>>
    /\ zclosed' = TRUE
    /\ zpc' = "remove"
    /\ UNCHANGED <<zipOthers, ztree, zexists, zstack, zcur, zentries, zsubs,
                   zspawned, zarchive, zrm>>

\* remove_dir_all: on Err the error is printed; Ok(filename) either way.
ZipRemove(ok) ==
    /\ zpc = "remove"
    /\ zexists' = ~ok
    /\ zrm' = IF ok THEN "removed" ELSE "failed"
    /\ zpc' = "done"
    /\ UNCHANGED <<zipOthers, ztree, zstack, zcur, zentries, zsubs,
                   zspawned, zarchive, zclosed>>

ZipNext ==
    \/ ZipMimetypeFail
    \/ ZipMimetype
    \/ ZipPop
    \/ \E name \in FileNames : ZipSkip(name)
    \/ \E name \in {"d"} : ZipSubDir(name)
    \/ \E name \in FileNames : ZipSpawn(name)
    \/ ZipPush
    \/ ZipScanned
    \/ ZipIoFail
    \/ \E k \in 1..(2 * (MaxDepth + 1)) : ZipWrite(k)
    \/ ZipClose
    \/ \E ok \in BOOLEAN : ZipRemove(ok)

\* ------------------------------------------------------------------------
\* DoclnCrawler::chapters_sequential
\* ------------------------------------------------------------------------
\* The seed chapters are `chapters` and the downloader's call is the one
\* modelled above: its Ok value is `results`.  The image handling of each
\* body is that of chapter_task and leaves the pairing alone; a body is
\* written as it was returned.
PairIdle ==
    /\ dpc = "idle"
    /\ di = 0
    /\ dfiles = <<>>

PairInit ==
    /\ dpc = "call"
    /\ di = 0
    /\ dfiles = <<>>

\* `chapters.iter_mut().zip(chapter_contents)`: the pairs end with the
\* shorter of the two.
zip(cs, contents) ==
    [k \in 1..(IF Len(cs) <= Len(contents) THEN Len(cs) ELSE Len(contents))
        |-> <<k, contents[k]>>]

\* `downloader.chapters_sequential(&chapters, next_url).await?` is an Err.
PairErr ==
    /\ dpc = "call"
    /\ qpc = "err"
    /\ dpc' = "err"
    /\ UNCHANGED <<pairOthers, di, dfiles>>

\* It is Ok(chapter_contents): the loop over the pairs begins.
PairBegin ==
    /\ dpc = "call"
    /\ qpc = "ok"
    /\ dpc' = "loop"
    /\ di' = 1
    /\ UNCHANGED <<pairOthers, dfiles>>

\* `processor.write_chapter(content, chapter).await.expect("")`
PairWrite(ok) ==
    /\ dpc = "loop"
    /\ di <= Len(zip(chapters, results))
    /\ IF ok
       THEN /\ dfiles' = dfiles \o <<zip(chapters, results)[di]>>
            /\ di' = di + 1
            /\ dpc' = dpc
       ELSE /\ dpc' = "panic"
            /\ UNCHANGED <<di, dfiles>>
    /\ UNCHANGED pairOthers

\* `Ok(chapters)`: every seed chapter is in the returned list.
PairReturn ==
    /\ dpc = "loop"
    /\ di > Len(zip(chapters, results))
    /\ dpc' = "ok"
    /\ UNCHANGED <<pairOthers, di, dfiles>>

PairNext ==
    \/ \E ok \in BOOLEAN : SeqJoin(ok)
    \/ SeqPageFail
    \/ \E t \in PageTitles, nxt \in {"url", "none", "bad"} : SeqPage(t, nxt)
    \/ SeqReturn
    \/ PairErr
    \/ PairBegin
    \/ \E ok \in BOOLEAN : PairWrite(ok)
    \/ PairReturn

\* ------------------------------------------------------------------------
\* DoclnCrawler::crawl: the working directory of one book
\* ------------------------------------------------------------------------
Modes == {"sequential", "tree"}

CrawlIdle ==
    /\ bpc = "idle"
    /\ bmode = "none"
    /\ bdir = FALSE
    /\ bmade = FALSE
    /\ bepub = "none"
    /\ bfail = "none"
    /\ bn = 0

CrawlInit ==
    /\ bpc = "create"
    /\ bmode \in Modes
    /\ bdir = FALSE
    /\ bmade = FALSE
    /\ bepub = "none"
    /\ bfail = "none"
    /\ bn = 1

\* Drop for Epub: `if self.epub_dir.exists()` then remove_dir_all, whose
\* error is only logged.  No Epub value, or one whose epub_dir is still
\* the empty default path, removes nothing.  The result is whether the
\* working directory exists afterwards.
Drop(epub, dir, removes) ==
    IF epub = "set" /\ dir /\ removes THEN FALSE ELSE dir

\* A `?` returns the error from crawl: the Epub value, if there is one, is
\* dropped on the way out.
CrawlFails(stage, removes) ==
    /\ bfail' = stage
    /\ bdir' = Drop(bepub, bdir, removes)
    /\ bepub' = "none"
    /\ bpc' = "done"

\* `fs::create_dir(&epub_dir).await?`: it fails on an existing directory,
\* and may fail otherwise.
CrawlCreateDir(ok) ==
    /\ bpc = "create"
    /\ IF bdir
       THEN CrawlFails("exists", FALSE) /\ UNCHANGED bmade
       ELSE IF ok
            THEN /\ bdir' = TRUE
                 /\ bmade' = TRUE
                 /\ bpc' = "subdirs"
                 /\ UNCHANGED <<bepub, bfail>>
            ELSE CrawlFails("create", FALSE) /\ UNCHANGED bmade
    /\ UNCHANGED <<crawlOthers, bmode, bn>>

\* create_dir of META-INF, OEBPS, OEBPS/Images and OEBPS/Text.
CrawlSubDirs(ok) ==
    /\ bpc = "subdirs"
    /\ IF ok
       THEN bpc' = "fetch" /\ UNCHANGED <<bdir, bepub, bfail>>
       ELSE CrawlFails("subdirs", FALSE)
    /\ UNCHANGED <<crawlOthers, bmode, bmade, bn>>

\* `downloader.novel_info().await?`
CrawlFetch(ok) ==
    /\ bpc = "fetch"
    /\ IF ok
       THEN bpc' = "parse" /\ UNCHANGED <<bdir, bepub, bfail>>
       ELSE CrawlFails("fetch", FALSE)
    /\ UNCHANGED <<crawlOthers, bmode, bmade, bn>>

\* `parser.novel_info(&novel_html, novel_id)?`: the Epub it builds has
\* `epub_dir: Default::default()`.
CrawlParse(ok) ==
    /\ bpc = "parse"
    /\ IF ok
       THEN bpc' = "cover" /\ bepub' = "default" /\ UNCHANGED <<bdir, bfail>>
       ELSE CrawlFails("parse", FALSE)
    /\ UNCHANGED <<crawlOthers, bmode, bmade, bn>>

\* The cover, if any: `downloader.image(..).await?`, `write_image(..)?`.
CrawlCover(ok, removes) ==
    /\ bpc = "cover"
    /\ IF ok
       THEN /\ bpc' = IF bmode = "tree" THEN "spawn" ELSE "children"
            /\ UNCHANGED <<bdir, bepub, bfail>>
       ELSE CrawlFails("cover", removes)
    /\ UNCHANGED <<crawlOthers, bmode, bmade, bn>>

\* epub_sequential: volume_sequential / chapters_sequential, and only then
\* `epub.epub_dir = epub_dir`.
CrawlSequential(ok, removes) ==
    /\ bpc = "children"
    /\ bmode = "sequential"
    /\ IF ok
       THEN bpc' = "metadata" /\ bepub' = "set" /\ UNCHANGED <<bdir, bfail>>
       ELSE CrawlFails("children", removes)
    /\ UNCHANGED <<crawlOthers, bmode, bmade, bn>>

\* epub_task: the tasks are spawned, `epub.epub_dir = epub_dir`, and
\* Ok((epub, children_tasks)).
CrawlSpawn ==
    /\ bpc = "spawn"
    /\ bpc' = "children"
    /\ bepub' = "set"
    /\ UNCHANGED <<crawlOthers, bmode, bdir, bmade, bfail, bn>>

\* `Self::set_epub_children(&mut epub, children_tasks).await?`
CrawlSetChildren(ok, removes) ==
    /\ bpc = "children"
    /\ bmode = "tree"
    /\ IF ok
       THEN bpc' = "metadata" /\ UNCHANGED <<bdir, bepub, bfail>>
       ELSE CrawlFails("children", removes)
    /\ UNCHANGED <<crawlOthers, bmode, bmade, bn>>

\* Epub::generate: `metadata.generate(self).await?`
CrawlMetadata(ok, removes) ==
    /\ bpc = "metadata"
    /\ IF ok
       THEN bpc' = "compress" /\ UNCHANGED <<bdir, bepub, bfail>>
       ELSE CrawlFails("metadata", removes)
    /\ UNCHANGED <<crawlOthers, bmode, bmade, bn>>

\* `compressor.compress_epub(&self.epub_dir).await?`: an error before the
\* archive is closed, or the close and the attempt to remove the tree;
\* then `Ok(())` and the Epub is dropped.
CrawlCompress(ok, removed, removes) ==
    /\ bpc = "compress"
    /\ IF ok
       THEN /\ bdir' = Drop(bepub, bdir /\ ~removed, removes)
            /\ bepub' = "none"
            /\ bpc' = "done"
            /\ UNCHANGED bfail
       ELSE CrawlFails("compress", removes)
    /\ UNCHANGED <<crawlOthers, bmode, bmade, bn>>

\* The same book id is crawled again.
CrawlAgain(mode) ==
    /\ bpc = "done"
    /\ bn < MaxCrawls
    /\ bn' = bn + 1
    /\ bmode' = mode
    /\ bpc' = "create"
    /\ bmade' = FALSE
    /\ bfail' = "none"
    /\ UNCHANGED <<crawlOthers, bdir, bepub>>

CrawlNext ==
    \/ \E ok \in BOOLEAN : CrawlCreateDir(ok)
    \/ \E ok \in BOOLEAN : CrawlSubDirs(ok)
    \/ \E ok \in BOOLEAN : CrawlFetch(ok)
    \/ \E ok \in BOOLEAN : CrawlParse(ok)
    \/ \E ok, removes \in BOOLEAN : CrawlCover(ok, removes)
    \/ \E ok, removes \in BOOLEAN : CrawlSequential(ok, removes)
    \/ CrawlSpawn
    \/ \E ok, removes \in BOOLEAN : CrawlSetChildren(ok, removes)
    \/ \E ok, removes \in BOOLEAN : CrawlMetadata(ok, removes)
    \/ \E ok, removed, removes \in BOOLEAN : CrawlCompress(ok, removed, removes)
    \/ \E mode \in Modes : CrawlAgain(mode)

\* ------------------------------------------------------------------------
\* Specifications
\* ------------------------------------------------------------------------
TreeIdle ==
    /\ book = [kind |-> "Chapters", vols |-> <<>>, n |-> 0]
    /\ budget = 1
    /\ permits = 1
    /\ ust = [u \in Units |-> "none"]
    /\ finished = [m \in 0..MaxVols |-> <<>>]
    /\ cpc = "idle"
    /\ volRes = <<>>
    /\ vpos = 0
    /\ outVolumes = <<>>
    /\ children = <<>>
    /\ crawlErr = NoUnit
    /\ generated = FALSE

TreeSpecInit ==
    /\ TreeInit /\ ManagerInit /\ ChapterIdle /\ StoreInit /\ SeqIdle
    /\ FetchIdle
    /\ PlainIdle
    /\ LimIdle
    /\ AggIdle
    /\ MainIdle
    /\ FoldIdle
    /\ NextIdle
    /\ PageIdle
    /\ TextIdle
    /\ UrlIdle
    /\ ParseIdle
    /\ InfoIdle
    /\ JarIdle
    /\ WaitIdle
    /\ ZipIdle
    /\ PairIdle
    /\ CrawlIdle

TreeSpec == TreeSpecInit /\ [][TreeNext]_vars

TreeFairSpec == TreeSpec /\ WF_vars(TreeNext)

ManagerSpecInit ==
    /\ ManagerInit /\ TreeIdle /\ ChapterIdle /\ StoreInit /\ SeqIdle
    /\ FetchIdle
    /\ PlainIdle
    /\ LimIdle
    /\ AggIdle
    /\ MainIdle
    /\ FoldIdle
    /\ NextIdle
    /\ PageIdle
    /\ TextIdle
    /\ UrlIdle
    /\ ParseIdle
    /\ InfoIdle
    /\ JarIdle
    /\ WaitIdle
    /\ ZipIdle
    /\ PairIdle
    /\ CrawlIdle

ManagerSpec == ManagerSpecInit /\ [][ManagerNext]_vars

ChapterSpecInit ==
    /\ ChapterInit /\ TreeIdle /\ ManagerInit /\ StoreInit /\ SeqIdle
    /\ FetchIdle
    /\ PlainIdle
    /\ LimIdle
    /\ AggIdle
    /\ MainIdle
    /\ FoldIdle
    /\ NextIdle
    /\ PageIdle
    /\ TextIdle
    /\ UrlIdle
    /\ ParseIdle
    /\ InfoIdle
    /\ JarIdle
    /\ WaitIdle
    /\ ZipIdle
    /\ PairIdle
    /\ CrawlIdle

ChapterSpec == ChapterSpecInit /\ [][ChapterNext]_vars

StoreSpecInit ==
    /\ StoreInit /\ TreeIdle /\ ManagerInit /\ ChapterIdle /\ SeqIdle
    /\ FetchIdle
    /\ PlainIdle
    /\ LimIdle
    /\ AggIdle
    /\ MainIdle
    /\ FoldIdle
    /\ NextIdle
    /\ PageIdle
    /\ TextIdle
    /\ UrlIdle
    /\ ParseIdle
    /\ InfoIdle
    /\ JarIdle
    /\ WaitIdle
    /\ ZipIdle
    /\ PairIdle
    /\ CrawlIdle

StoreSpec == StoreSpecInit /\ [][StoreNext]_vars

SeqSpecInit ==
    /\ SeqInit /\ TreeIdle /\ ManagerInit /\ ChapterIdle /\ StoreInit
    /\ FetchIdle
    /\ PlainIdle
    /\ LimIdle
    /\ AggIdle
    /\ MainIdle
    /\ FoldIdle
    /\ NextIdle
    /\ PageIdle
    /\ TextIdle
    /\ UrlIdle
    /\ ParseIdle
    /\ InfoIdle
    /\ JarIdle
    /\ WaitIdle
    /\ ZipIdle
    /\ PairIdle
    /\ CrawlIdle

SeqSpec == SeqSpecInit /\ [][SeqNext]_vars

FetchSpecInit ==
    /\ FetchIdle /\ TreeIdle /\ ManagerInit /\ ChapterIdle /\ StoreInit
    /\ SeqIdle
    /\ PlainIdle
    /\ LimIdle
    /\ AggIdle
    /\ MainIdle
    /\ FoldIdle
    /\ NextIdle
    /\ PageIdle
    /\ TextIdle
    /\ UrlIdle
    /\ ParseIdle
    /\ InfoIdle
    /\ JarIdle
    /\ WaitIdle
    /\ ZipIdle
    /\ PairIdle
    /\ CrawlIdle

FetchSpec == FetchSpecInit /\ [][FetchNext]_vars

PlainSpecInit ==
    /\ PlainIdle /\ TreeIdle /\ ManagerInit /\ ChapterIdle /\ StoreInit
    /\ SeqIdle /\ FetchIdle
    /\ LimIdle
    /\ AggIdle
    /\ MainIdle
    /\ FoldIdle
    /\ NextIdle
    /\ PageIdle
    /\ TextIdle
    /\ UrlIdle
    /\ ParseIdle
    /\ InfoIdle
    /\ JarIdle
    /\ WaitIdle
    /\ ZipIdle
    /\ PairIdle
    /\ CrawlIdle

PlainSpec == PlainSpecInit /\ [][PlainNext]_vars

LimSpecInit ==
    /\ LimInit /\ TreeIdle /\ ManagerInit /\ ChapterIdle /\ StoreInit
    /\ SeqIdle /\ FetchIdle /\ PlainIdle
    /\ AggIdle
    /\ MainIdle
    /\ FoldIdle
    /\ NextIdle
    /\ PageIdle
    /\ TextIdle
    /\ UrlIdle
    /\ ParseIdle
    /\ InfoIdle
    /\ JarIdle
    /\ WaitIdle
    /\ ZipIdle
    /\ PairIdle
    /\ CrawlIdle

LimSpec == LimSpecInit /\ [][LimNext]_vars

AggSpecInit ==
    /\ AggInit /\ TreeIdle /\ ManagerInit /\ ChapterIdle /\ StoreInit
    /\ SeqIdle /\ FetchIdle /\ PlainIdle /\ LimIdle
    /\ MainIdle
    /\ FoldIdle
    /\ NextIdle
    /\ PageIdle
    /\ TextIdle
    /\ UrlIdle
    /\ ParseIdle
    /\ InfoIdle
    /\ JarIdle
    /\ WaitIdle
    /\ ZipIdle
    /\ PairIdle
    /\ CrawlIdle

AggSpec == AggSpecInit /\ [][AggNext]_vars

MainSpecInit ==
    /\ MainInit /\ TreeIdle /\ ManagerInit /\ ChapterIdle /\ StoreInit
    /\ SeqIdle /\ FetchIdle /\ PlainIdle /\ LimIdle /\ AggIdle
    /\ FoldIdle
    /\ NextIdle
    /\ PageIdle
    /\ TextIdle
    /\ UrlIdle
    /\ ParseIdle
    /\ InfoIdle
    /\ JarIdle
    /\ WaitIdle
    /\ ZipIdle
    /\ PairIdle
    /\ CrawlIdle

MainSpec == MainSpecInit /\ [][MainNext]_vars

FoldSpecInit ==
    /\ FoldInit /\ TreeIdle /\ ManagerInit /\ ChapterIdle /\ StoreInit
    /\ SeqIdle /\ FetchIdle /\ PlainIdle /\ LimIdle /\ AggIdle /\ MainIdle
    /\ NextIdle
    /\ PageIdle
    /\ TextIdle
    /\ UrlIdle
    /\ ParseIdle
    /\ InfoIdle
    /\ JarIdle
    /\ WaitIdle
    /\ ZipIdle
    /\ PairIdle
    /\ CrawlIdle

FoldSpec == FoldSpecInit /\ [][FoldNext]_vars

NextSpecInit ==
    /\ NextInit /\ TreeIdle /\ ManagerInit /\ ChapterIdle /\ StoreInit
    /\ SeqIdle /\ FetchIdle /\ PlainIdle /\ LimIdle /\ AggIdle /\ MainIdle
    /\ FoldIdle
    /\ PageIdle
    /\ TextIdle
    /\ UrlIdle
    /\ ParseIdle
    /\ InfoIdle
    /\ JarIdle
    /\ WaitIdle
    /\ ZipIdle
    /\ PairIdle
    /\ CrawlIdle

NextSpec == NextSpecInit /\ [][NextNext]_vars

PageSpecInit ==
    /\ PageInit /\ TreeIdle /\ ManagerInit /\ ChapterIdle /\ StoreInit
    /\ SeqIdle /\ FetchIdle /\ PlainIdle /\ LimIdle /\ AggIdle /\ MainIdle
    /\ FoldIdle /\ NextIdle
    /\ TextIdle
    /\ UrlIdle
    /\ ParseIdle
    /\ InfoIdle
    /\ JarIdle
    /\ WaitIdle
    /\ ZipIdle
    /\ PairIdle
    /\ CrawlIdle

PageSpec == PageSpecInit /\ [][PageNext]_vars

TextSpecInit ==
    /\ TextInit /\ TreeIdle /\ ManagerInit /\ ChapterIdle /\ StoreInit
    /\ SeqIdle /\ FetchIdle /\ PlainIdle /\ LimIdle /\ AggIdle /\ MainIdle
    /\ FoldIdle /\ NextIdle /\ PageIdle
    /\ UrlIdle
    /\ ParseIdle
    /\ InfoIdle
    /\ JarIdle
    /\ WaitIdle
    /\ ZipIdle
    /\ PairIdle
    /\ CrawlIdle

TextSpec == TextSpecInit /\ [][TextNext]_vars

UrlSpecInit ==
    /\ UrlInit /\ TreeIdle /\ ManagerInit /\ ChapterIdle /\ StoreInit
    /\ SeqIdle /\ FetchIdle /\ PlainIdle /\ LimIdle /\ AggIdle /\ MainIdle
    /\ FoldIdle /\ NextIdle /\ PageIdle /\ TextIdle
    /\ ParseIdle
    /\ InfoIdle
    /\ JarIdle
    /\ WaitIdle
    /\ ZipIdle
    /\ PairIdle
    /\ CrawlIdle

UrlSpec == UrlSpecInit /\ [][UrlNext]_vars

ParseSpecInit ==
    /\ ParseInit /\ TreeIdle /\ ManagerInit /\ ChapterIdle /\ StoreInit
    /\ SeqIdle /\ FetchIdle /\ PlainIdle /\ LimIdle /\ AggIdle /\ MainIdle
    /\ FoldIdle /\ NextIdle /\ PageIdle /\ TextIdle /\ UrlIdle
    /\ InfoIdle
    /\ JarIdle
    /\ WaitIdle
    /\ ZipIdle
    /\ PairIdle
    /\ CrawlIdle

ParseSpec == ParseSpecInit /\ [][ParseNext]_vars

InfoSpecInit ==
    /\ InfoInit /\ TreeIdle /\ ManagerInit /\ ChapterIdle /\ StoreInit
    /\ SeqIdle /\ FetchIdle /\ PlainIdle /\ LimIdle /\ AggIdle /\ MainIdle
    /\ FoldIdle /\ NextIdle /\ PageIdle /\ TextIdle /\ UrlIdle /\ ParseIdle
    /\ JarIdle
    /\ WaitIdle
    /\ ZipIdle
    /\ PairIdle
    /\ CrawlIdle

InfoSpec == InfoSpecInit /\ [][InfoNext]_vars

JarSpecInit ==
    /\ JarInit /\ TreeIdle /\ ManagerInit /\ ChapterIdle /\ StoreInit
    /\ SeqIdle /\ FetchIdle /\ PlainIdle /\ LimIdle /\ AggIdle /\ MainIdle
    /\ FoldIdle /\ NextIdle /\ PageIdle /\ TextIdle /\ UrlIdle /\ ParseIdle
    /\ InfoIdle
    /\ WaitIdle
    /\ ZipIdle
    /\ PairIdle
    /\ CrawlIdle

JarSpec == JarSpecInit /\ [][JarNext]_vars

WaitSpecInit ==
    /\ WaitInit /\ TreeIdle /\ ManagerInit /\ ChapterIdle /\ StoreInit
    /\ SeqIdle /\ FetchIdle /\ PlainIdle /\ LimIdle /\ AggIdle /\ MainIdle
    /\ FoldIdle /\ NextIdle /\ PageIdle /\ TextIdle /\ UrlIdle /\ ParseIdle
    /\ InfoIdle /\ JarIdle
    /\ ZipIdle
    /\ PairIdle
    /\ CrawlIdle

WaitSpec == WaitSpecInit /\ [][WaitNext]_vars

ZipSpecInit ==
    /\ ZipInit /\ TreeIdle /\ ManagerInit /\ ChapterIdle /\ StoreInit
    /\ SeqIdle /\ FetchIdle /\ PlainIdle /\ LimIdle /\ AggIdle /\ MainIdle
    /\ FoldIdle /\ NextIdle /\ PageIdle /\ TextIdle /\ UrlIdle /\ ParseIdle
    /\ InfoIdle /\ JarIdle /\ WaitIdle
    /\ PairIdle
    /\ CrawlIdle

ZipSpec == ZipSpecInit /\ [][ZipNext]_vars

PairSpecInit ==
    /\ PairInit /\ SeqInit /\ TreeIdle /\ ManagerInit /\ ChapterIdle
    /\ StoreInit /\ FetchIdle /\ PlainIdle /\ LimIdle /\ AggIdle /\ MainIdle
    /\ FoldIdle /\ NextIdle /\ PageIdle /\ TextIdle /\ UrlIdle /\ ParseIdle
    /\ InfoIdle /\ JarIdle /\ WaitIdle /\ ZipIdle
    /\ CrawlIdle

PairSpec == PairSpecInit /\ [][PairNext]_vars

CrawlSpecInit ==
    /\ CrawlInit /\ TreeIdle /\ ManagerInit /\ ChapterIdle /\ StoreInit
    /\ SeqIdle /\ FetchIdle /\ PlainIdle /\ LimIdle /\ AggIdle /\ MainIdle
    /\ FoldIdle /\ NextIdle /\ PageIdle /\ TextIdle /\ UrlIdle /\ ParseIdle
    /\ InfoIdle /\ JarIdle /\ WaitIdle /\ ZipIdle /\ PairIdle

CrawlSpec == CrawlSpecInit /\ [][CrawlNext]_vars

\* ------------------------------------------------------------------------
\* CrawlerTaskManager: properties
\* ------------------------------------------------------------------------
\* C2: the number of task bodies executing (chapter and image tasks
\* together) never exceeds the currently configured max_concurrent_tasks.
C2_BudgetRespected ==
    Cardinality(Running(chapterSet \cup imageSet)) <= maxConcurrent

\* ------------------------------------------------------------------------
\* Tree mode: properties
\* ------------------------------------------------------------------------
Ascending(s) == \A i \in 1..(Len(s) - 1) : s[i].index < s[i + 1].index

\* The book in the parser's order: what the collected tree must equal.
ParsedChildren ==
    IF book.kind = "Volumes"
    THEN [v \in 1..Len(book.vols) |->
             [index |-> v,
              chapters |-> [c \in 1..book.vols[v] |-> ChapterOut(<<v, c>>)]]]
    ELSE [c \in 1..book.n |-> ChapterOut(<<0, c>>)]

\* C1: whatever the completion order of the volume and chapter tasks, every
\* chapter list sort_chapters returns and the volume list sort_volumes
\* returns are strictly ascending by index, and the collected tree is the
\* parsed one: it does not depend on which task finished first.
C1_TreeOrder ==
    /\ \A i \in 1..Len(outVolumes) : Ascending(outVolumes[i].chapters)
    /\ Ascending(children)
    /\ \A i \in 1..Len(children) : Ascending(children[i].chapters)
    /\ cpc \in {"generate", "done"} => children = ParsedChildren

\* C1 witness: a finished crawl in which volume 2 completed before volume 1
\* and chapter 2 of a volume before its chapter 1.
C1_Witness ==
    /\ cpc = "done"
    /\ book.kind = "Volumes"
    /\ Len(finished[0]) >= 2
    /\ Index(finished[0][1]) > Index(finished[0][2])
    /\ \E v \in 1..Len(book.vols) :
          /\ Len(finished[v]) >= 2
          /\ Index(finished[v][1]) > Index(finished[v][2])

\* A step the unit takes on its own, without waiting for anyone.
UnitStep(u) ==
    \/ \E res \in {"ok", "err"} : ChapterFinish(u, res)
    \/ VolumeFail(u)
    \/ VolumeSpawn(u)
    \/ VolumeReturn(u)

\* C3: the slots taken are exactly those of the running units (crawl, which
\* collects, holds none), and a unit that holds a slot is never blocked
\* waiting for one of its children: it can always take its next step.
C3_NoSlotWhileAwaiting ==
    /\ budget - permits = Cardinality({u \in Units : HoldsSlot(u)})
    /\ \A u \in Units :
          HoldsSlot(u) =>
              /\ ENABLED UnitStep(u)
              /\ \A c \in AwaitedBy(u) : Finished(c)

\* C3 witness: a volume task has spawned its chapter tasks and still holds
\* its slot while a chapter of it has not finished, and another volume task
\* has already returned with a chapter still pending.
C3_Witness ==
    \E u \in Units, w \in Units :
        /\ IsVolume(u) /\ ust[u] = "spawned"
        /\ \E c \in ChapterUnits(u[1]) : ~Finished(c)
        /\ IsVolume(w) /\ ust[w] = "ok"
        /\ \E c \in ChapterUnits(w[1]) : ust[c] = "waiting"

Returned == cpc \in {"done", "failed"}

\* C4: with every step terminating (fairness), crawl eventually returns:
\* with all volumes and chapters collected, or with the failure of a step.
C4_TreeTerminates ==
    <>(\/ cpc = "done" /\ children = ParsedChildren
       \/ cpc = "failed" /\ crawlErr # NoUnit)

\* C4 witness: a crawl that finished with more volumes than budget slots.
C4_Witness ==
    /\ cpc = "done"
    /\ book.kind = "Volumes"
    /\ Len(book.vols) > budget
    /\ SumSeq(book.vols) >= 2
    /\ children = ParsedChildren

AnyFailed == \E u \in Units : ust[u] = "err"

\* C5: once a volume or chapter unit has failed, packaging never runs and
\* crawl cannot succeed; when crawl returns it returns the error of a unit
\* that failed (or of epub_task).
C5_StopTheWorld ==
    /\ AnyFailed => (~generated /\ cpc \notin {"generate", "done"})
    /\ cpc = "failed" =>
          /\ ~generated
          /\ crawlErr # NoUnit
          /\ crawlErr \in Units => ust[crawlErr] = "err"

\* C5 witness: crawl returned the failure of a chapter of a volume while
\* another task was still pending (it is no longer awaited).
C5_Witness ==
    /\ cpc = "failed"
    /\ crawlErr \in Units
    /\ ~IsVolume(crawlErr)
    /\ crawlErr[1] >= 1
    /\ \E u \in Units : ust[u] \in {"waiting", "running"}
    /\ ~generated

\* ------------------------------------------------------------------------
\* chapter_task: properties
\* ------------------------------------------------------------------------
\* The names the successful downloads of the URL u were saved under.
SavedAs(u) ==
    {att[i].name : i \in {k \in 1..Len(att) : att[k].src = u
                                              /\ att[k].res = "ok"}}

IsOk(a) == a.res = "ok"

\* C6: an image failure never fails the chapter; when the chapter is done,
\* an <img> whose URL could not be saved still carries its remote URL, an
\* <img> whose URL was saved refers to ../Images/<a name it was saved as>,
\* chapter.images holds exactly the names of the saved images, and the body
\* written is the rewritten one.
C6_ImageFailureDowngraded ==
    /\ hpc = "images" => si = Len(att) + 1
    /\ hpc = "ok" =>
          /\ Len(att) = Len(srcs)
          /\ written = content
          /\ Len(content) = Len(body0)
          /\ Len(images) = Len(SelectSeq(att, IsOk))
          /\ \A i \in 1..Len(images) : images[i] = SelectSeq(att, IsOk)[i].name
          /\ \A p \in 1..Len(body0) :
                IF SavedAs(body0[p]) = {}
                THEN content[p] = body0[p]
                ELSE \E n \in SavedAs(body0[p]) : content[p] = LocalRef(n)

\* ------------------------------------------------------------------------
\* write_image: properties
\* ------------------------------------------------------------------------
HasName(w) == wret[w] # NoName

\* C7: write_image is idempotent and content-addressed.  A call
\* write_image(b, e) that begins after a call with the same b and e has
\* returned its name returns that same name, the hash of b followed by e,
\* and writes nothing (the two calls together write the file at most once);
\* calls with different bytes return different names.
C7_WriteImageIdempotent ==
    /\ \A w \in Writers :
          wafter[w] =>
             /\ wpc[w] \in {"check", "done"}
             /\ ~wrote[w]
             /\ wpc[w] = "done" => wret[w] = <<Hash(warg[w][1]), warg[w][2]>>
    /\ \A w1, w2 \in Writers :
          HasName(w1) /\ HasName(w2) /\ warg[w1][1] # warg[w2][1]
             => wret[w1] # wret[w2]

C7_Witness ==
    \E w1, w2 \in Writers :
       /\ w1 # w2
       /\ wafter[w1] /\ wpc[w1] = "done" /\ HasName(w1)
       /\ HasName(w2) /\ warg[w2][1] # warg[w1][1]

\* The file behind every name holds the bytes the name is the hash of once
\* no writer is in the middle of writing it, and no other bytes at any
\* time: writers of different bytes never write the same file.
FilesHoldTheirBytes ==
    \A a \in Args :
       /\ disk[NameOf(a)].data \in {0, a[1]}
       /\ (/\ disk[NameOf(a)].exists
           /\ \A w \in Writers : ~(wpc[w] = "fill" /\ warg[w] = a))
             => disk[NameOf(a)].data = a[1]

RECURSIVE Assemble(_, _, _)
Assemble(ms, k, acc) ==
    IF k > Len(ms) THEN acc
    ELSE IF ms[k] /\ acc # <<>>
         THEN Assemble(ms, k + 1,
                       [acc EXCEPT ![Len(acc)] = acc[Len(acc)] \o <<k>>])
         ELSE Assemble(ms, k + 1, Append(acc, <<k>>))

\* C9: chapters_sequential returns the fetched pages assembled by title
\* continuation: consecutive pages whose title matches are concatenated in
\* fetch order into one body, a page whose title does not match starts a
\* new body; for pages 1 and 2 matching and page 3 not matching the result
\* is exactly two bodies, the first being page 1 followed by page 2.
C9_AssembledByTitle ==
    qpc = "ok" =>
       /\ results = Assemble(matched, 1, <<>>)
       /\ matched = <<TRUE, TRUE, FALSE>> =>
             /\ Len(results) = 2
             /\ results[1] = <<1, 2>>

\* ------------------------------------------------------------------------
\* Downloader::chapter: properties
\* ------------------------------------------------------------------------
\* C10: when chapter receives a 429 response carrying Retry-After: v, the
\* call returns a failure that is distinguishable as rate-limited and
\* carries the value v to the caller.
C10_RateLimitedCarriesRetryAfter ==
    (/\ fpc = "done"
     /\ fresp.status = 429
     /\ fresp.retry \in {"30", "120"})
       => /\ ~fres.ok
          /\ fres.msg = "rate_limited"
          /\ fres.retry = fresp.retry

\* What chapter does with a non-200 response: never a body, and for a
\* status other than 200 and 429 an error naming that status.
NonOkClassified ==
    (fpc = "done" /\ fresp # NoResponse /\ fresp.status # 200) =>
       /\ ~fres.ok
       /\ fres.body = 0
       /\ fresp.status # 429 =>
             fres.msg = "http_error" /\ fres.status = fresp.status

\* C11 as stated: chapter returns the response body if and only if the
\* status is 200; for every status other than 200 and 429 it returns an
\* error naming that status; it never returns a body for a non-200 response.
C11_BodyIffStatus200 ==
    /\ fpc = "done" /\ fresp # NoResponse =>
          (fres.ok /\ fres.body = fresp.body) <=> fresp.status = 200
    /\ NonOkClassified

\* C11 amended: chapter returns the response body only if the status is
\* 200, and for status 200 it returns the body exactly when the body reads
\* as UTF-8 text (the read error otherwise); for every status other than 200
\* and 429 it returns an error naming that status; it never returns a body
\* for a non-200 response.
C11_BodyOnlyIfStatus200 ==
    /\ fpc = "done" /\ fres.ok =>
          fresp.status = 200 /\ fres.body = fresp.body
    /\ (fpc = "done" /\ fresp.status = 200 /\ ~fres.ok) => fres.msg = "utf8"
    /\ NonOkClassified

C11_Witness ==
    /\ fpc = "done"
    /\ fresp.status = 500
    /\ fres = ErrResult("http_error", 500, "")

\* ------------------------------------------------------------------------
\* novel_info, image, page fetch: properties
\* ------------------------------------------------------------------------
\* C12: the book-document fetch, the image fetch and the page fetch of
\* chapters_sequential each fail with a fatal error when the response status
\* is neither 200 nor 429 and fail as rate-limited on 429; none of them
\* hands on the body of a non-200 response as if it were content.
C12_EveryFetchClassifiesStatus ==
    (gpc = "done" /\ gresp # NoResponse /\ gresp.status # 200) =>
       /\ ~gres.ok
       /\ gres.body = 0
       /\ gres.msg = IF gresp.status = 429 THEN "rate_limited"
                     ELSE "http_error"

\* A call sends at most one request, the call is over once the response is
\* classified, and a 429 comes back to the caller as a failure after that
\* one request.
NoSecondRequest ==
    /\ fsent <= 1
    /\ fpc \in {"status", "body"} => fsent = 1
    /\ (fpc = "done" /\ fresp.status = 429) => ~fres.ok /\ fsent = 1

\* C13 as stated: each call of chapter issues exactly one HTTP request
\* whatever the outcome; after a 429 or any other failure the request is
\* not issued again and the failure is returned to the caller.
C13_ExactlyOneRequest ==
    /\ fpc = "done" => fsent = 1
    /\ NoSecondRequest

\* C13 amended: each call of chapter issues at most one HTTP request, and
\* exactly one unless the URL cannot be resolved against the base (then
\* none); after a 429 or any other failure the request is not issued again
\* and the failure is returned to the caller.
C13_AtMostOneRequest ==
    /\ fpc = "done" => fsent = (IF fres.msg = "url" THEN 0 ELSE 1)
    /\ NoSecondRequest

C13_Witness ==
    /\ fpc = "done"
    /\ fresp.status = 429
    /\ fresp.retry = "30"
    /\ fres.msg = "rate_limited"
    /\ fsent = 1

\* ------------------------------------------------------------------------
\* The shared client: properties
\* ------------------------------------------------------------------------
InFlight == {c \in Clones : cst[c] = "inflight"}

RECURSIVE StartedIn(_, _)
\* The number of requests started at the instants from..to.
StartedIn(from, to) ==
    IF from > to \/ from > MaxTime THEN 0
    ELSE lstarts[from] + StartedIn(from + 1, to)

\* C14: across all clones of the site's Downloader, at every instant at
\* most concurrency_limit requests are in flight, and in every rate window
\* of rate_limit.secs seconds at most rate_limit.num requests are started;
\* a clone never has a budget of its own.
C14_SiteBudgets ==
    /\ Cardinality(InFlight) <= concLimit
    /\ \A s \in lwins : StartedIn(s, s + rateSecs - 1) <= rateNum
    /\ \A c \in Clones : cst[c] # "none" => climiter[c] = 1

\* Two clones have requests in flight at once, and a second rate window has
\* begun after the first was used up.
C14_Witness ==
    /\ Cardinality(InFlight) = 2
    /\ Cardinality(lwins) >= 2
    /\ \E s \in lwins : StartedIn(s, s + rateSecs - 1) = rateNum

C16_LoopSurvivesFailedBook ==
    mres = "err" =>
       /\ mpc = "prompt"
       /\ mexit = "none"
       /\ mlog[Len(mlog)] = "error"

\* ------------------------------------------------------------------------
\* Value folding: properties
\* ------------------------------------------------------------------------
RECURSIVE TextsBefore(_, _)
\* How many texts the first k matches contribute.
TextsBefore(in, k) ==
    IF k = 0 THEN 0 ELSE TextsBefore(in, k - 1) + Len(in[k].texts)

\* The texts ts are exactly the contributions of the matches in, in
\* document order: nothing for an Empty, the one text of a Single, all the
\* texts of a Multiple in their order.
IsFoldOf(ts, in) ==
    /\ Len(ts) = TextsBefore(in, Len(in))
    /\ \A k \in 1..Len(in) : \A j \in 1..Len(in[k].texts) :
          ts[TextsBefore(in, k - 1) + j] = in[k].texts[j]

RECURSIVE Split(_, _)
\* The texts of a joined string: its pieces between separators.
Split(s, cur) ==
    IF s = <<>> THEN <<cur>>
    ELSE IF Head(s) = 0 THEN <<cur>> \o Split(Tail(s), <<>>)
    ELSE Split(Tail(s), Append(cur, Head(s)))

\* C17: wherever an extractor folds per-match results into one Value, an
\* Empty contributes nothing, a Single exactly its one text, a Multiple all
\* its texts in order, and the contributions are concatenated in document
\* order; the result is Empty if and only if no text was contributed, so no
\* Single is ever dropped.
C17_ValueFolding ==
    xpc = "done" =>
       LET in == Matches(xkind, xin)
       IN /\ xout.tag = "Empty" <=> TextsBefore(in, Len(in)) = 0
          /\ xout.tag = "Multiple" => IsFoldOf(xout.texts, in)
          /\ xout.tag = "Single" => IsFoldOf(Split(xout.texts[1], <<>>), in)
          /\ xout.tag = "Single" <=>
                (xkind \in {"Combine.extract", "Combine.extract_all"}
                 /\ TextsBefore(in, Len(in)) > 0)

\* A Multiple followed by a Single folded by List.extract_all.
C17_Witness ==
    /\ xpc = "done"
    /\ xkind = "List.extract_all"
    /\ xin = <<Multiple(<<(<<1>>), (<<2>>)>>), Single(<<1>>)>>
    /\ xout = Multiple(<<(<<1>>), (<<2>>), (<<1>>)>>)

\* ------------------------------------------------------------------------
\* Next::extract: properties
\* ------------------------------------------------------------------------
\* The candidates whose text contains the condition.
TextContains ==
    {i \in 1..Len(ncands) : Contains(Flatten(ncands[i].nodes), ncond)}

\* The candidates one text node of which contains the condition and which
\* have a next sibling element.
NodeContainsWithSibling ==
    {i \in 1..Len(ncands) : /\ \E k \in 1..Len(ncands[i].nodes) :
                                  Contains(ncands[i].nodes[k], ncond)
                            /\ ncands[i].sib # NoValue}

First(S) == CHOOSE i \in S : \A j \in S : i <= j

\* C18 as stated: Next.extract with condition c returns the nested
\* extractor applied to the next sibling element of the first candidate in
\* document order whose text contains c; candidates whose text does not
\* contain c are never used; with no qualifying candidate the result is
\* Empty.
C18_FirstCandidateWithText ==
    npc = "done" =>
       /\ nused # 0 => nused \in TextContains /\ nused = First(TextContains)
       /\ TextContains = {} => nout = Empty
       /\ (TextContains # {} /\ ncands[First(TextContains)].sib # NoValue)
             => /\ nused = First(TextContains)
                /\ nout = ncands[nused].sib

\* C18 amended: Next.extract with condition c returns the nested extractor
\* applied to the next sibling element of the first candidate in document
\* order that has a text node containing c and has a next sibling element;
\* other candidates are never used; with no such candidate the result is
\* Empty.
C18_FirstCandidateWithNode ==
    npc = "done" =>
       IF NodeContainsWithSibling = {}
       THEN nused = 0 /\ nout = Empty
       ELSE /\ nused = First(NodeContainsWithSibling)
            /\ nout = ncands[nused].sib

\* <span>Tác giả:</span><span><a>Jane</a></span> with the condition
\* "Tac gia:" (the label is "12", Jane is "1"), after a candidate with
\* another label.
C18_Witness ==
    /\ npc = "done"
    /\ ncond = <<1, 2>>
    /\ ncands = <<[nodes |-> <<(<<2>>)>>, sib |-> Single(<<2>>)],
                  [nodes |-> <<(<<1, 2>>)>>, sib |-> Single(<<1>>)]>>
    /\ nused = 2
    /\ nout = Single(<<1>>)

\* ------------------------------------------------------------------------
\* Sequential pagination: properties
\* ------------------------------------------------------------------------
\* C19: in sequential mode the first page request goes to the first seed
\* chapter's URL resolved against the base; request k+1 is issued only after
\* the response of request k has been received and parsed, and its URL is
\* the next-URL extracted from page k; never are two chapter-page requests
\* in flight; when page k yields no next-URL no further page is requested.
C19_StrictlySequential ==
    /\ Len(ulog) >= 1 => ulog[1] = join(useed)
    /\ Len(ulog) <= Len(uext) + 1
    /\ \A k \in 1..(Len(ulog) - 1) :
          /\ uext[k] # NoNextUrl
          /\ ulog[k + 1] = join(uext[k])
    /\ uflight <= 1
    /\ \A k \in 1..Len(uext) : uext[k] = NoNextUrl => Len(ulog) = k

\* ------------------------------------------------------------------------
\* Text extractor: properties
\* ------------------------------------------------------------------------
\* Empty or whitespace only.
IsBlank(t) == \A k \in 1..Len(t) : t[k] \in Blanks

\* C20: Text.extract returns Empty when the selector matches nothing and
\* when the matched element's flattened text is empty or whitespace-only;
\* Text.extract_all contributes no entry for such an element, so it never
\* returns a Multiple containing a blank text.
C20_BlankTextIsEmpty ==
    tpc = "done" =>
       /\ (top = "extract" /\ telems = <<>>) => tout = Empty
       /\ (top = "extract" /\ telems # <<>> /\ IsBlank(Flatten(telems[1])))
             => tout = Empty
       /\ top = "extract_all" =>
             \A k \in 1..Len(tout.texts) : ~IsBlank(tout.texts[k])

\* ------------------------------------------------------------------------
\* Url extractor: properties
\* ------------------------------------------------------------------------
RECURSIVE AllLinks(_)
\* The URLs found in the texts, in scan order.
AllLinks(texts) ==
    IF texts = <<>> THEN <<>>
    ELSE Links(Head(texts)) \o AllLinks(Tail(texts))

\* C21: for Url.extract and Url.extract_all alike, the raw attribute value
\* is returned unchanged when the attribute is href or src; otherwise the
\* result is Empty for 0 URLs found, Single for exactly 1 and Multiple (in
\* scan order) for 2 or more.
C21_UrlCardinality ==
    kpc = "done" =>
       IF kname \in {"href", "src"}
       THEN kout = kin
       ELSE LET urls == AllLinks(kin.texts)
            IN  kout = IF Len(urls) = 0 THEN Empty
                       ELSE IF Len(urls) = 1 THEN Single(urls[1])
                       ELSE Multiple(urls)

\* ------------------------------------------------------------------------
\* Parse-time indices: properties
\* ------------------------------------------------------------------------
\* The numbers of a sequence of volumes or chapters are positive and
\* strictly increasing in its order.
Increasing(s) ==
    /\ \A k \in 1..Len(s) : s[k].num >= 1
    /\ \A k \in 1..(Len(s) - 1) : s[k].num < s[k + 1].num

\* The output files of the book: <<volume, 0>> is the cover page of a
\* volume, <<volume, chapter>> a chapter, by their positions in `volumes`.
OutputFiles ==
    {f \in (1..Len(pvolumes)) \X (0..MaxChaps) :
        f[2] <= Len(pvolumes[f[1]].chapters)}

FilenameOf(f) ==
    IF f[2] = 0 THEN pvolumes[f[1]].cover
    ELSE pvolumes[f[1]].chapters[f[2]].filename

\* C22: the 1-based numbers the parser gives to volumes and to the chapters
\* in a volume are positive and strictly increasing in document order
\* within their container, and all output filenames of a book are pairwise
\* distinct, also when list items are skipped.
C22_ParseIndices ==
    /\ Increasing(pvolumes)
    /\ Increasing(pchapters)
    /\ \A v \in 1..Len(pvolumes) : Increasing(pvolumes[v].chapters)
    /\ \A f, g \in OutputFiles : f # g => FilenameOf(f) # FilenameOf(g)

\* A volume item without id is skipped, and so is the first chapter item of
\* the volume that follows: the volume is 1 and its only chapter is 2.
C22_Witness ==
    /\ ppc = "done"
    /\ Len(pdoc) = 2
    /\ ~pdoc[1].id
    /\ pdoc[2] = [id |-> TRUE, items |-> <<FALSE, TRUE>>]
    /\ Len(pvolumes) = 1
    /\ pvolumes[1].num = 1
    /\ pvolumes[1].chapters =
          <<[num |-> 2, filename |-> <<"1", "_", "2", ".xhtml">>]>>

\* ------------------------------------------------------------------------
\* Mandatory book fields: properties
\* ------------------------------------------------------------------------
\* The title was found and is not blank after trimming.
TitleGiven == ititle # NoValue /\ ~IsBlank(ititle.texts[1])

\* An author item was found whose value is not blank after trimming.
AuthorGiven ==
    \E k \in 1..Len(iitems) :
       iitems[k].name = "Tac gia:" /\ ~IsBlank(iitems[k].value)

TitleErrors == {"title not found"}

AuthorErrors == {"no info item found", "author not found"}

\* C23: novel_info returns a Book aggregate only if the title and the
\* author were found and are non-blank after trimming; a missing or blank
\* title and a missing or blank author each make it fail, with errors that
\* differ between the two fields; no partly filled aggregate is returned.
C23_MandatoryFields ==
    ipc = "done" =>
       /\ ires.kind = "ok" =>
             /\ TitleGiven /\ AuthorGiven
             /\ ires.book.title # <<>> /\ ires.book.author # <<>>
       /\ ~TitleGiven => ires.kind = "err" /\ ires.msg \in TitleErrors
       /\ (TitleGiven /\ ~AuthorGiven) =>
             ires.kind = "err" /\ ires.msg \in AuthorErrors
       /\ TitleErrors \cap AuthorErrors = {}
       /\ ires.kind = "err" => ires.book = NoBook

\* ------------------------------------------------------------------------
\* Cookie jar: properties
\* ------------------------------------------------------------------------
\* C24: when get_jar has returned, every cookie of every site whose auth
\* record is cookie entries is in the shared jar under that site's
\* scheme://host, for any number of such sites and any iteration order.
C24_EverySiteCookies ==
    jpc = "done" =>
       \A s \in Sites : \A c \in jauth[s].cookies :
          [url |-> [scheme |-> "https", host |-> s], cookie |-> c] \in jar

\* ------------------------------------------------------------------------
\* wait_all_tasks: properties
\* ------------------------------------------------------------------------
\* The chapter tasks spawned before wait_all_tasks was called.
ChaptersBefore == {t \in Jobs : ykind[t] = "chapter" /\ ybefore[t]}

\* The image tasks spawned by those chapter tasks, at any time.
ImagesOfThose == {t \in Jobs : yparent[t] \in ChaptersBefore}

Ended(t) == yst[t] \in {"done", "panicked"}

\* C25: when wait_all_tasks returns, every chapter task spawned before the
\* call has ended and so has every image task spawned by one of them, also
\* after a panic, and none of these is left in a JoinSet; the chapter tasks
\* are all joined before the image tasks are taken, and the manager lock is
\* not held while tasks are awaited.
C25_WaitAllComplete ==
    /\ ypc = "returned" =>
          /\ \A t \in ChaptersBefore \cup ImagesOfThose : Ended(t)
          /\ (ChaptersBefore \cup ImagesOfThose) \cap (yimg \cup ywait) = {}
    /\ ypc \in {"took images", "images", "returned"} =>
          \A t \in ChaptersBefore : Ended(t)
    /\ ypc \in {"chapters", "images"} => ~ylock

\* wait_all_tasks has returned after a chapter task spawned before the call
\* panicked and an image task it had spawned during the wait ended.
C25_Witness ==
    /\ ypc = "returned"
    /\ \E c \in ChaptersBefore :
          /\ yst[c] = "panicked"
          /\ \E i \in ImagesOfThose :
                yparent[i] = c /\ ~ybefore[i] /\ yst[i] = "done"

\* ------------------------------------------------------------------------
\* Archive layout: properties
\* ------------------------------------------------------------------------
RECURSIVE RelPath(_)
\* The path relative to the root, its names separated by "/".
RelPath(p) ==
    IF Len(p) <= 1 THEN p
    ELSE RelPath(SubSeq(p, 1, Len(p) - 1)) \o <<"/", p[Len(p)]>>

Written(path) == {k \in 1..Len(zarchive) : zarchive[k].path = path}

\* mimetype is the first entry, stored, once; every other regular file is
\* written once, deflated, under its relative path; nothing else is
\* written; the tree is not removed before the archive is closed.
Layout ==
    /\ zarchive[1] = [path |-> <<"mimetype">>, method |-> "Stored"]
    /\ Written(<<"mimetype">>) = {1}
    /\ \A f \in ztree.files \ {<<"mimetype">>} :
          /\ Cardinality(Written(RelPath(f))) = 1
          /\ \A k \in Written(RelPath(f)) : zarchive[k].method = "Deflate"
    /\ Len(zarchive) = Cardinality(ztree.files)
    /\ zclosed

\* C26 as stated: when compress_epub returns Ok the archive has the layout
\* above and the working tree has been removed after the close.
C26_ArchiveLayoutTreeRemoved ==
    /\ zpc = "done" => Layout /\ ~zexists
    /\ ~zexists => zclosed

\* C26 amended: when compress_epub returns Ok the archive has the layout
\* above; the removal of the working tree is attempted after the close,
\* and the tree is gone unless remove_dir_all fails, which is only printed.
C26_ArchiveLayout ==
    /\ zpc = "done" =>
          /\ Layout
          /\ zrm \in {"removed", "failed"}
          /\ zrm = "removed" <=> ~zexists
    /\ ~zexists => zclosed
    /\ zrm # "none" => zclosed

\* A tree with a mimetype and another file in a sub-directory and a file
\* two levels down has been archived and removed.
C26_Witness ==
    /\ zpc = "done"
    /\ {<<"d", "mimetype">>, <<"d", "x">>, <<"d", "d", "x">>}
          \subseteq ztree.files
    /\ zrm = "removed"
    /\ ~zexists

\* ------------------------------------------------------------------------
\* chapters_sequential: no page text is lost
\* ------------------------------------------------------------------------
\* The pages fetched so far, in fetch order: page k's paragraph text is k.
Fetched == [k \in 1..(qi - 1) |-> k]

\* C27: when chapters_sequential returns Ok, the concatenation of the
\* returned bodies is the concatenation of the fetched pages' paragraphs in
\* fetch order (so every fetched page is in exactly one body, the last
\* body being assembled included), and no returned body is empty.
C27_NoPageTextLost ==
    qpc = "ok" =>
       /\ Flatten(results) = Fetched
       /\ \A k \in 1..Len(results) : results[k] # <<>>

\* ------------------------------------------------------------------------
\* DoclnCrawler::chapters_sequential: properties
\* ------------------------------------------------------------------------
\* C28: when DoclnCrawler::chapters_sequential returns Ok, the downloader
\* returned as many bodies as there are seed chapters, and every chapter of
\* the returned list has had its file written by write_chapter, the i-th
\* chapter's file holding the i-th body.
C28_BodiesPairedCompletely ==
    dpc = "ok" =>
       /\ Len(results) = Len(chapters)
       /\ Len(dfiles) = Len(chapters)
       /\ \A k \in 1..Len(dfiles) : dfiles[k] = <<k, results[k]>>

\* ------------------------------------------------------------------------
\* DoclnCrawler::crawl: properties
\* ------------------------------------------------------------------------
\* C29: whenever a crawl that created the working directory returns, with
\* success or with an error, the directory no longer exists; so no later
\* crawl of the same book id fails in create_dir on an existing directory.
C29_WorkingTreeCleanedUp ==
    /\ bpc = "done" /\ bmade => ~bdir
    /\ bfail # "exists"

\* ------------------------------------------------------------------------
\* chapter_task: the image list
\* ------------------------------------------------------------------------
\* C30: after chapter_task completes, chapter.images holds each local image
\* filename at most once, also when the body references one image URL more
\* than once or two URLs deliver identical bytes.
C30_ImagesWithoutDuplicates ==
    hpc = "ok" =>
       \A j, k \in 1..Len(images) : images[j] = images[k] => j = k

====
